---- MODULE Spec2Model ----
(***************************************************************************)
(* Verification model of the telesight analytics core:                     *)
(*   - buildReplyGraph     (src/unnamed/part_008)                          *)
(*   - computePostScore    (src/lib/post-scoring.ts)                       *)
(*   - findSimilarPosts    (src/lib/post-scoring.ts)                       *)
(* Every function is a pure transform of a message list.  Each one gets    *)
(* its own specification: Init draws the inputs from bounded sets and the  *)
(* actions run the function's code.                                        *)
(***************************************************************************)
EXTENDS Integers, Sequences, FiniteSets, TLC

VARIABLES
  \* ---- buildReplyGraph ----
  messages,               \* parameter: TelegramMessage[]
  includeCrossChannel,    \* parameter: boolean
  pc,                     \* position in the running function
  selfReplyCount,
  crossChannelReplyCount,
  nodeIds,                \* Set<number>, kept in insertion order
  edges,                  \* GraphEdge[]
  nodes,                  \* GraphNode[]
  visited,                \* Set<number> of the component search
  chains,                 \* ReplyChain[]
  chainId,
  startIdx,               \* ids of nodeIds the for loop over start ids has consumed
  queue,                  \* queue of the component search
  chainNodeIds,
  chainEdges,
  rootId,
  maxDepth,
  depthQueue,             \* [id, depth] pairs of the depth search
  depthVisited,
  depthOrder,             \* history: ids dequeued by the depth search of the current chain
  \* ---- computePostScore / findSimilarPosts ----
  allMessages,            \* parameter of both: TelegramMessage[]
  message,                \* parameter of computePostScore
  postScore,              \* PostScore returned by computePostScore
  target,                 \* parameter of findSimilarPosts
  limit,                  \* parameter of findSimilarPosts
  similar,                \* SimilarPost[] returned by findSimilarPosts
  \* ---- computeWrappedStats ----
  scope,                  \* parameter of computeWrappedStats
  dateParsing,            \* how the engine's Date reads a "Y/M/D" string with month 0
  wrappedStats,           \* WrappedStats returned by computeWrappedStats
  \* ---- analyzeMessageForFraud (its parameter is message) ----
  totalScore,             \* local: the cumulative score, <<>> before it is computed
  fraudResult,            \* FraudResult | null returned by analyzeMessageForFraud
  \* ---- computeInteractionMap, computeMemberStats (parameter messages) ----
  interactionMap,         \* InteractionEdge[] returned by computeInteractionMap
  memberStats,            \* MemberStat[] returned by computeMemberStats
  \* ---- buildForwardGraph (parameter messages) ----
  forwardGraph,           \* ReplyGraphData returned by buildForwardGraph
  \* ---- link-preview route ----
  cache,                  \* Map<string, CacheEntry>, kept in insertion order
  now,                    \* Date.now()
  handler,                \* per request handler: where it stands and its url
  response,               \* the response the latest step sent, <<>> if none
  upstream,               \* the hosts the latest step sent a request to
  lastUsed,               \* history: the cached keys, the least recently used first
  evicted,                \* history: what the latest step evicted, <<>> if nothing
  \* ---- buildThreads (parameter messages) ----
  topics,                 \* parameter: the ids of the topics
  activeTopic,            \* parameter: <<>> for null, else the id of a topic
  threads                 \* ThreadNode[] returned by buildThreads

graphVars == <<messages, includeCrossChannel, pc, selfReplyCount,
               crossChannelReplyCount, nodeIds, edges, nodes, visited, chains,
               chainId, startIdx, queue, chainNodeIds, chainEdges, rootId,
               maxDepth, depthQueue, depthVisited, depthOrder>>

\* the variables of buildReplyGraph other than pc
graphVars_noPc == <<messages, includeCrossChannel, selfReplyCount,
                    crossChannelReplyCount, nodeIds, edges, nodes, visited,
                    chains, chainId, startIdx, queue, chainNodeIds, chainEdges,
                    rootId, maxDepth, depthQueue, depthVisited, depthOrder>>

scoringVars == <<allMessages, message, postScore, target, limit, similar>>

\* the variables of the other analytic functions
wrappedVars == <<scope, dateParsing, wrappedStats>>

fraudVars == <<totalScore, fraudResult>>

groupVars == <<interactionMap, memberStats>>

forwardVars == <<forwardGraph>>

\* the variables of the link-preview route and of buildThreads
appVars ==
  <<cache, now, handler, response, upstream, lastUsed, evicted, topics, activeTopic,
    threads>>

analyticsVars == <<wrappedVars, fraudVars, groupVars, forwardVars, appVars>>

vars == <<graphVars, scoringVars, analyticsVars>>

(***************************************************************************)
(* Bounds of the explored inputs                                           *)
(***************************************************************************)
MaxMsgs == 2        \* longest message list
ExternalId == 999   \* an id no message of the export carries

(***************************************************************************)
(* Generic helpers                                                         *)
(***************************************************************************)
Range(s) == {s[i] : i \in 1..Len(s)}

Contains(s, x) == \E i \in 1..Len(s) : s[i] = x

SeqsUpTo(S, n) == UNION {[1..k -> S] : k \in 0..n}

RECURSIVE SumSeq(_)
SumSeq(s) == IF s = <<>> THEN 0 ELSE Head(s) + SumSeq(Tail(s))

Max2(a, b) == IF a >= b THEN a ELSE b

Min2(a, b) == IF a <= b THEN a ELSE b

(***************************************************************************)
(* Messages.  An optional field is a sequence of length 0 (absent) or 1.   *)
(* reactions is the list of the reaction counts.                           *)
(***************************************************************************)
\* the ids of the messages of an export; 0 is the one falsy id
MsgIds == {0, 1, 2}

ReplyTargets == {<<>>} \cup {<<t>> : t \in MsgIds \cup {ExternalId}}

GraphMessages ==
  [id : MsgIds, type : {"message"}, reply_to_message_id : ReplyTargets,
   reactions : {<<>>, <<1>>}]
  \cup
  [id : MsgIds, type : {"service"}, reply_to_message_id : ReplyTargets,
   reactions : {<<>>}]

\* msg.reactions?.reduce((s, r) => s + r.count, 0) || 0
ReactionTotal(msg) == SumSeq(msg.reactions)

(***************************************************************************)
(* buildReplyGraph: index, reply scan, node list                           *)
(***************************************************************************)
\* messageMap.has(id)
MessageMapHas(msgs, id) == \E i \in 1..Len(msgs) : msgs[i].id = id

\* messageMap.get(id): Map.set in list order, so the last message of an id wins
MessageMapGet(msgs, id) ==
  LET last == CHOOSE i \in 1..Len(msgs) :
                /\ msgs[i].id = id
                /\ \A j \in (i + 1)..Len(msgs) : msgs[j].id # id
  IN msgs[last]

\* messages.filter(m => m.type === "message" && m.reply_to_message_id != null)
RECURSIVE FilterReplies(_)
FilterReplies(msgs) ==
  IF msgs = <<>> THEN <<>>
  ELSE IF Head(msgs).type = "message" /\ Head(msgs).reply_to_message_id # <<>>
       THEN <<Head(msgs)>> \o FilterReplies(Tail(msgs))
       ELSE FilterReplies(Tail(msgs))

\* Set.add on an insertion-ordered set
SetAdd(s, x) == IF Contains(s, x) THEN s ELSE Append(s, x)

\* one pass of the loop over replyMessages, but the external counter is only
\* advanced when the flag is on
ScanStepFlagCounted(acc, msg, msgs, flag) ==
  LET targetId == msg.reply_to_message_id[1]
      edge == [source |-> targetId, target |-> msg.id]
  IN IF MessageMapHas(msgs, targetId)
     THEN [acc EXCEPT !.selfReplyCount = @ + 1,
                      !.nodeIds = SetAdd(SetAdd(@, msg.id), targetId),
                      !.edges = Append(@, edge)]
     ELSE IF flag
          THEN [acc EXCEPT !.crossChannelReplyCount = @ + 1,
                           !.nodeIds = SetAdd(SetAdd(@, msg.id), targetId),
                           !.edges = Append(@, edge)]
          ELSE acc

\* one pass of the loop over replyMessages, but an external reply is never
\* given a node or an edge
ScanStepNoPhantom(acc, msg, msgs, flag) ==
  LET targetId == msg.reply_to_message_id[1]
      edge == [source |-> targetId, target |-> msg.id]
  IN IF MessageMapHas(msgs, targetId)
     THEN [acc EXCEPT !.selfReplyCount = @ + 1,
                      !.nodeIds = SetAdd(SetAdd(@, msg.id), targetId),
                      !.edges = Append(@, edge)]
     ELSE [acc EXCEPT !.crossChannelReplyCount = @ + 1]

\* one pass of the loop over replyMessages
ScanStep(acc, msg, msgs, flag) ==
  LET targetId == msg.reply_to_message_id[1]
      edge == [source |-> targetId, target |-> msg.id]
  IN IF MessageMapHas(msgs, targetId)
     THEN [acc EXCEPT !.selfReplyCount = @ + 1,
                      !.nodeIds = SetAdd(SetAdd(@, msg.id), targetId),
                      !.edges = Append(@, edge)]
     ELSE IF flag
          THEN [acc EXCEPT !.crossChannelReplyCount = @ + 1,
                           !.nodeIds = SetAdd(SetAdd(@, msg.id), targetId),
                           !.edges = Append(@, edge)]
          ELSE [acc EXCEPT !.crossChannelReplyCount = @ + 1]

RECURSIVE ScanLoop(_, _, _, _)
ScanLoop(replyMessages, msgs, flag, acc) ==
  IF replyMessages = <<>> THEN acc
  ELSE ScanLoop(Tail(replyMessages), msgs, flag,
                ScanStep(acc, Head(replyMessages), msgs, flag))

\* the counters, node ids and edges after the loop over replyMessages
ReplyScan(msgs, flag) ==
  ScanLoop(FilterReplies(msgs), msgs, flag,
           [selfReplyCount |-> 0, crossChannelReplyCount |-> 0,
            nodeIds |-> <<>>, edges |-> <<>>])

\* the GraphNode of an id; an id without a message is a phantom
BuildNode(msgs, id) ==
  [id |-> id,
   reactionCount |-> IF MessageMapHas(msgs, id)
                     THEN ReactionTotal(MessageMapGet(msgs, id)) ELSE 0,
   isForwardedReply |-> ~MessageMapHas(msgs, id),
   chainId |-> 0]

BuildNodes(msgs, ids) == [i \in 1..Len(ids) |-> BuildNode(msgs, ids[i])]

(***************************************************************************)
(* buildReplyGraph: adjacency, components, root and depth of a chain       *)
(***************************************************************************)
\* adj.get(id), but an edge is only entered under its source
RECURSIVE AdjDirected(_, _)
AdjDirected(es, id) ==
  IF es = <<>> THEN <<>>
  ELSE (IF Head(es).source = id THEN <<Head(es).target>> ELSE <<>>)
       \o AdjDirected(Tail(es), id)

\* adj.get(id): for each edge in order, push target under source and source
\* under target
RECURSIVE Adj(_, _)
Adj(es, id) ==
  IF es = <<>> THEN <<>>
  ELSE (IF Head(es).source = id THEN <<Head(es).target>> ELSE <<>>)
       \o (IF Head(es).target = id THEN <<Head(es).source>> ELSE <<>>)
       \o Adj(Tail(es), id)

\* the neighbour loop of the component search; st = [visited, queue]
RECURSIVE VisitNeighbors(_, _)
VisitNeighbors(ns, st) ==
  IF ns = <<>> THEN st
  ELSE IF Head(ns) \in st.visited
       THEN VisitNeighbors(Tail(ns), st)
       ELSE VisitNeighbors(Tail(ns),
              [visited |-> st.visited \cup {Head(ns)},
               queue |-> Append(st.queue, Head(ns))])

RECURSIVE FilterSeq(_, _)
FilterSeq(s, S) ==
  IF s = <<>> THEN <<>>
  ELSE IF Head(s) \in S THEN <<Head(s)>> \o FilterSeq(Tail(s), S)
       ELSE FilterSeq(Tail(s), S)

\* the edge loop of the depth search, but without the depthVisited test
RECURSIVE DepthExpandNoVisited(_, _, _, _)
DepthExpandNoVisited(ces, cid, depth, st) ==
  IF ces = <<>> THEN st
  ELSE IF Head(ces).source = cid
       THEN DepthExpandNoVisited(Tail(ces), cid, depth,
              [depthVisited |-> st.depthVisited \cup {Head(ces).target},
               depthQueue |-> Append(st.depthQueue, <<Head(ces).target, depth + 1>>)])
       ELSE DepthExpandNoVisited(Tail(ces), cid, depth, st)

\* the edge loop of the depth search; st = [depthVisited, depthQueue]
RECURSIVE DepthExpand(_, _, _, _)
DepthExpand(ces, cid, depth, st) ==
  IF ces = <<>> THEN st
  ELSE IF Head(ces).source = cid /\ Head(ces).target \notin st.depthVisited
       THEN DepthExpand(Tail(ces), cid, depth,
              [depthVisited |-> st.depthVisited \cup {Head(ces).target},
               depthQueue |-> Append(st.depthQueue, <<Head(ces).target, depth + 1>>)])
       ELSE DepthExpand(Tail(ces), cid, depth, st)

\* chains.sort((a, b) => b.nodes.length - a.nodes.length), a stable sort
RECURSIVE InsertChain(_, _)
InsertChain(sorted, c) ==
  IF sorted = <<>> THEN <<c>>
  ELSE IF Len(Head(sorted).nodes) >= Len(c.nodes)
       THEN <<Head(sorted)>> \o InsertChain(Tail(sorted), c)
       ELSE <<c>> \o sorted

RECURSIVE SortChains(_)
SortChains(cs) ==
  IF cs = <<>> THEN <<>>
  ELSE InsertChain(SortChains(SubSeq(cs, 1, Len(cs) - 1)), cs[Len(cs)])

(***************************************************************************)
(* buildReplyGraph as a state machine                                      *)
(***************************************************************************)
\* computePostScore and findSimilarPosts are not running
ScoringIdle ==
  /\ allMessages = <<>>
  /\ message = <<>>
  /\ postScore = <<>>
  /\ target = <<>>
  /\ limit = 0
  /\ similar = <<>>

\* computeWrappedStats is not running
WrappedIdle ==
  /\ scope = <<>>
  /\ dateParsing = "strict"
  /\ wrappedStats = <<>>

\* analyzeMessageForFraud is not running
FraudIdle ==
  /\ totalScore = <<>>
  /\ fraudResult = <<>>

\* computeInteractionMap and computeMemberStats are not running
GroupIdle ==
  /\ interactionMap = <<>>
  /\ memberStats = <<>>

\* buildForwardGraph is not running
ForwardIdle == forwardGraph = <<>>

\* the link-preview route has served nothing and buildThreads is not running
AppIdle ==
  /\ cache = <<>>
  /\ now = 0
  /\ handler = <<>>
  /\ response = <<>>
  /\ upstream = {}
  /\ lastUsed = <<>>
  /\ evicted = <<>>
  /\ topics = {}
  /\ activeTopic = <<>>
  /\ threads = <<>>

\* none of the other analytic functions is running
AnalyticsIdle == WrappedIdle /\ FraudIdle /\ GroupIdle /\ ForwardIdle /\ AppIdle

\* the call of buildReplyGraph on a list drawn from msgSet
GraphCall(msgSet) ==
  /\ ScoringIdle
  /\ AnalyticsIdle
  /\ messages \in SeqsUpTo(msgSet, MaxMsgs)
  /\ includeCrossChannel \in BOOLEAN
  /\ pc = "start"
  /\ selfReplyCount = 0
  /\ crossChannelReplyCount = 0
  /\ nodeIds = <<>>
  /\ edges = <<>>
  /\ nodes = <<>>
  /\ visited = {}
  /\ chains = <<>>
  /\ chainId = 0
  /\ startIdx = 0
  /\ queue = <<>>
  /\ chainNodeIds = <<>>
  /\ chainEdges = <<>>
  /\ rootId = 0
  /\ maxDepth = 0
  /\ depthQueue = <<>>
  /\ depthVisited = {}
  /\ depthOrder = <<>>

InitGraph == GraphCall(GraphMessages)

\* the same start, over content-messages without reactions: the searches
\* only read ids and reply targets
InitGraphReplies ==
  GraphCall({m \in GraphMessages : m.type = "message" /\ m.reactions = <<>>})

\* index the messages, scan the replies, build the node list
Scan ==
  /\ pc = "start"
  /\ LET r == ReplyScan(messages, includeCrossChannel)
     IN /\ selfReplyCount' = r.selfReplyCount
        /\ crossChannelReplyCount' = r.crossChannelReplyCount
        /\ nodeIds' = r.nodeIds
        /\ edges' = r.edges
        /\ nodes' = BuildNodes(messages, r.nodeIds)
  /\ pc' = "outer"
  /\ UNCHANGED <<scoringVars, analyticsVars, messages, includeCrossChannel, visited, chains, chainId,
                 startIdx, queue, chainNodeIds, chainEdges, rootId, maxDepth,
                 depthQueue, depthVisited, depthOrder>>

\* visited.has(startId)
AlreadyVisitedNever(id, vis) == FALSE

AlreadyVisited(id, vis) == id \in vis

\* for (const startId of nodeIds) { if (visited.has(startId)) continue
SkipVisited ==
  /\ pc = "outer"
  /\ startIdx < Len(nodeIds)
  /\ AlreadyVisited(nodeIds[startIdx + 1], visited)
  /\ startIdx' = startIdx + 1
  /\ UNCHANGED <<scoringVars, analyticsVars, messages, includeCrossChannel, pc, selfReplyCount,
                 crossChannelReplyCount, nodeIds, edges, nodes, visited,
                 chains, chainId, queue, chainNodeIds, chainEdges, rootId,
                 maxDepth, depthQueue, depthVisited, depthOrder>>

\* for (const startId of nodeIds): an unvisited id opens a chain
StartChain ==
  /\ pc = "outer"
  /\ startIdx < Len(nodeIds)
  /\ ~AlreadyVisited(nodeIds[startIdx + 1], visited)
  /\ startIdx' = startIdx + 1
  /\ chainId' = chainId + 1
  /\ queue' = <<nodeIds[startIdx + 1]>>
  /\ visited' = visited \cup {nodeIds[startIdx + 1]}
  /\ chainNodeIds' = <<>>
  /\ pc' = "bfs"
  /\ UNCHANGED <<scoringVars, analyticsVars, messages, includeCrossChannel, selfReplyCount,
                 crossChannelReplyCount, nodeIds, edges, nodes, chains,
                 chainEdges, rootId, maxDepth, depthQueue, depthVisited,
                 depthOrder>>

\* one pass of while (queue.length > 0) of the component search
ComponentStep ==
  /\ pc = "bfs"
  /\ queue # <<>>
  /\ LET current == Head(queue)
         st == VisitNeighbors(Adj(edges, current),
                              [visited |-> visited, queue |-> Tail(queue)])
     IN /\ chainNodeIds' = Append(chainNodeIds, current)
        /\ nodes' = [i \in 1..Len(nodes) |->
                       IF nodes[i].id = current
                       THEN [nodes[i] EXCEPT !.chainId = chainId]
                       ELSE nodes[i]]
        /\ visited' = st.visited
        /\ queue' = st.queue
  /\ UNCHANGED <<scoringVars, analyticsVars, messages, includeCrossChannel, pc, selfReplyCount,
                 crossChannelReplyCount, nodeIds, edges, chains, chainId,
                 startIdx, chainEdges, rootId, maxDepth, depthQueue,
                 depthVisited, depthOrder>>

\* the component is complete: chain edges, root, start of the depth search
SelectRoot ==
  /\ pc = "bfs"
  /\ queue = <<>>
  /\ LET \* edges.filter(e => chainNodeIds.includes(e.source)
         \*                   && chainNodeIds.includes(e.target))
         ces == FilterSeq(edges, {e \in Range(edges) :
                                    /\ Contains(chainNodeIds, e.source)
                                    /\ Contains(chainNodeIds, e.target)})
         \* chainNodeIds.filter(id => !hasIncoming.has(id))
         roots == FilterSeq(chainNodeIds,
                            {id \in Range(chainNodeIds) :
                               \A e \in Range(ces) : e.target # id})
         \* roots[0] || chainNodeIds[0]: an undefined or zero roots[0] is falsy
         root == IF roots # <<>> /\ roots[1] # 0 THEN roots[1] ELSE chainNodeIds[1]
     IN /\ chainEdges' = ces
        /\ rootId' = root
        /\ depthQueue' = << <<root, 0>> >>
        /\ depthVisited' = {root}
  /\ maxDepth' = 0
  /\ depthOrder' = <<>>
  /\ pc' = "depth"
  /\ UNCHANGED <<scoringVars, analyticsVars, messages, includeCrossChannel, selfReplyCount,
                 crossChannelReplyCount, nodeIds, edges, nodes, visited,
                 chains, chainId, startIdx, queue, chainNodeIds>>

\* one pass of while (depthQueue.length > 0)
DepthStep ==
  /\ pc = "depth"
  /\ depthQueue # <<>>
  /\ LET cid == Head(depthQueue)[1]
         depth == Head(depthQueue)[2]
         st == DepthExpand(chainEdges, cid, depth,
                 [depthVisited |-> depthVisited, depthQueue |-> Tail(depthQueue)])
     IN /\ maxDepth' = Max2(maxDepth, depth)
        /\ depthVisited' = st.depthVisited
        /\ depthQueue' = st.depthQueue
        /\ depthOrder' = Append(depthOrder, cid)
  /\ UNCHANGED <<scoringVars, analyticsVars, messages, includeCrossChannel, pc, selfReplyCount,
                 crossChannelReplyCount, nodeIds, edges, nodes, visited,
                 chains, chainId, startIdx, queue, chainNodeIds, chainEdges,
                 rootId>>

\* chains.push({...})
PushChain ==
  /\ pc = "depth"
  /\ depthQueue = <<>>
  /\ chains' = Append(chains,
                 [id |-> chainId,
                  \* chainNodeIds.map(id => nodeMap.get(id))
                  nodes |-> [i \in 1..Len(chainNodeIds) |->
                               nodes[CHOOSE k \in 1..Len(nodes) :
                                       nodes[k].id = chainNodeIds[i]]],
                  edges |-> chainEdges,
                  rootId |-> rootId,
                  depth |-> maxDepth])
  /\ pc' = "outer"
  /\ UNCHANGED <<scoringVars, analyticsVars, messages, includeCrossChannel, selfReplyCount,
                 crossChannelReplyCount, nodeIds, edges, nodes, visited,
                 chainId, startIdx, queue, chainNodeIds, chainEdges, rootId,
                 maxDepth, depthQueue, depthVisited, depthOrder>>

\* every node is in a chain: sort the chains and return
Finish ==
  /\ pc = "outer"
  /\ startIdx = Len(nodeIds)
  /\ chains' = SortChains(chains)
  /\ pc' = "done"
  /\ UNCHANGED <<scoringVars, analyticsVars, messages, includeCrossChannel, selfReplyCount,
                 crossChannelReplyCount, nodeIds, edges, nodes, visited,
                 chainId, startIdx, queue, chainNodeIds, chainEdges, rootId,
                 maxDepth, depthQueue, depthVisited, depthOrder>>

NextGraph ==
  \/ Scan
  \/ SkipVisited
  \/ StartChain
  \/ ComponentStep
  \/ SelectRoot
  \/ DepthStep
  \/ PushChain
  \/ Finish

SpecGraph == InitGraph /\ [][NextGraph]_vars

\* the function runs to completion once called: no step waits on anything
SpecGraphFair == InitGraphReplies /\ [][NextGraph]_vars /\ WF_vars(NextGraph)

(***************************************************************************)
(* Properties of buildReplyGraph                                           *)
(***************************************************************************)
\* positions of the content-messages that carry a reply target
ReplyIdx == {i \in 1..Len(messages) :
               messages[i].type = "message" /\ messages[i].reply_to_message_id # <<>>}

TargetOf(i) == messages[i].reply_to_message_id[1]

\* the reply target is the id of a message of the list
InternalIdx == {i \in ReplyIdx : \E j \in 1..Len(messages) : messages[j].id = TargetOf(i)}

ExternalIdx == ReplyIdx \ InternalIdx

EdgePairs(es) == {<<es[k].source, es[k].target>> : k \in 1..Len(es)}

NodeIdSet == {nodes[k].id : k \in 1..Len(nodes)}

PairsOf(idx) == {<<TargetOf(i), messages[i].id>> : i \in idx}

EndpointsOf(idx) == {TargetOf(i) : i \in idx} \cup {messages[i].id : i \in idx}

PhantomReply == <<[id |-> 1, type |-> "message",
                   reply_to_message_id |-> <<ExternalId>>, reactions |-> <<>>]>>

\* C1: a content-message whose reply target is absent from the list adds no
\* node and no edge when includeCrossChannel is off (nodes and edges are
\* exactly those of the resolvable replies), and with the flag on adds its own
\* node, a phantom node with the target's id (zero reactions, flagged
\* external) and one edge target -> reply.  For the single message
\* {id: 1, reply_to: 999} the graph has 0 nodes, 0 edges and
\* crossChannelReplyCount = 1 with the flag off, 2 nodes and 1 edge with it on.
C1_PhantomReplies ==
  pc # "start" =>
    /\ ~includeCrossChannel =>
         /\ Len(edges) = Cardinality(InternalIdx)
         /\ EdgePairs(edges) = PairsOf(InternalIdx)
         /\ NodeIdSet = EndpointsOf(InternalIdx)
         /\ Len(nodes) = Cardinality(NodeIdSet)
         /\ \A k \in 1..Len(nodes) : ~nodes[k].isForwardedReply
    /\ includeCrossChannel =>
         /\ Len(edges) = Cardinality(InternalIdx) + Cardinality(ExternalIdx)
         /\ EdgePairs(edges) = PairsOf(ReplyIdx)
         /\ NodeIdSet = EndpointsOf(ReplyIdx)
         /\ Len(nodes) = Cardinality(NodeIdSet)
         /\ \A i \in ExternalIdx :
              /\ \E k \in 1..Len(nodes) : nodes[k].id = messages[i].id
              /\ \E k \in 1..Len(edges) :
                   edges[k] = [source |-> TargetOf(i), target |-> messages[i].id]
              /\ \A k \in 1..Len(nodes) :
                   nodes[k].id = TargetOf(i) =>
                     nodes[k].isForwardedReply /\ nodes[k].reactionCount = 0
    /\ messages = PhantomReply =>
         /\ crossChannelReplyCount = 1
         /\ ~includeCrossChannel => Len(nodes) = 0 /\ Len(edges) = 0
         /\ includeCrossChannel => Len(nodes) = 2 /\ Len(edges) = 1

\* a list with a reacted message and an unresolvable reply, flag on, returned
C1_Witness ==
  /\ pc = "done"
  /\ includeCrossChannel
  /\ Len(messages) = 2
  /\ messages[1].reactions # <<>>
  /\ ExternalIdx # {}
  /\ \E k \in 1..Len(nodes) : nodes[k].isForwardedReply

ChainIds(c) == {c.nodes[k].id : k \in 1..Len(c.nodes)}

\* C2: the chains partition the node list: every node lies in exactly one
\* chain, a chain holds only ids of the node list, and no id occurs twice,
\* in one chain or in two.
C2_ChainsPartitionNodes ==
  pc = "done" =>
    /\ \A id \in NodeIdSet :
         Cardinality({c \in 1..Len(chains) : id \in ChainIds(chains[c])}) = 1
    /\ \A c \in 1..Len(chains) :
         /\ ChainIds(chains[c]) \subseteq NodeIdSet
         /\ Cardinality(ChainIds(chains[c])) = Len(chains[c].nodes)
    /\ \A c, d \in 1..Len(chains) :
         c # d => ChainIds(chains[c]) \cap ChainIds(chains[d]) = {}

\* a finished graph with two chains, one of them of several nodes
C2_Witness ==
  /\ pc = "done"
  /\ Len(chains) >= 2
  /\ Len(chains[1].nodes) >= 2

\* C3: for a content-message m whose reply target t is the id of a message of
\* the list, the result has the edge t -> m.id, both ids are nodes, and both
\* lie in one chain and in no other.
C3_ResolvableReplyInOneChain ==
  pc = "done" =>
    \A i \in InternalIdx :
      LET t == TargetOf(i)
          m == messages[i].id
      IN /\ \E k \in 1..Len(edges) : edges[k] = [source |-> t, target |-> m]
         /\ {t, m} \subseteq NodeIdSet
         /\ \E c \in 1..Len(chains) :
              /\ {t, m} \subseteq ChainIds(chains[c])
              /\ \A d \in 1..Len(chains) :
                   d # c => ChainIds(chains[d]) \cap {t, m} = {}

\* a finished graph where a message replies to an earlier, different message
C3_Witness ==
  /\ pc = "done"
  /\ \E i \in InternalIdx : TargetOf(i) # messages[i].id
  /\ Len(chains) >= 1

\* levels of a breadth-first traversal along source -> target edges
RECURSIVE BfsLevels(_, _, _, _)
BfsLevels(es, frontier, seen, level) ==
  LET next == {e.target : e \in {x \in Range(es) : x.source \in frontier}} \ seen
  IN IF next = {} THEN level
     ELSE BfsLevels(es, next, seen \cup next, level + 1)

ChainRoots(c) == {id \in ChainIds(c) : \A e \in Range(c.edges) : e.target # id}

\* C4: in every chain, rootId is a node of the chain without an incoming
\* chain edge whenever such a node exists, else the chain's first node; and
\* depth is the largest level of a breadth-first traversal from rootId along
\* parent -> child edges.  Message id 0 included.
C4_RootAndDepth ==
  pc = "done" =>
    \A c \in 1..Len(chains) :
      /\ ChainRoots(chains[c]) # {} => chains[c].rootId \in ChainRoots(chains[c])
      /\ ChainRoots(chains[c]) = {} => chains[c].rootId = chains[c].nodes[1].id
      /\ chains[c].depth =
           BfsLevels(chains[c].edges, {chains[c].rootId}, {chains[c].rootId}, 0)

\* C5: both counters are the same for both flag values: selfReplyCount is
\* the number of content-messages whose reply target is in the list,
\* crossChannelReplyCount the number whose target is absent, and their sum
\* the number of content-messages with a reply target.
C5_CountersIgnoreFlag ==
  pc # "start" =>
    LET other == ReplyScan(messages, ~includeCrossChannel)
    IN /\ selfReplyCount = other.selfReplyCount
       /\ crossChannelReplyCount = other.crossChannelReplyCount
       /\ selfReplyCount = Cardinality(InternalIdx)
       /\ crossChannelReplyCount = Cardinality(ExternalIdx)
       /\ selfReplyCount + crossChannelReplyCount = Cardinality(ReplyIdx)

\* flag off, one resolvable and one unresolvable reply counted
C5_Witness ==
  /\ pc = "done"
  /\ ~includeCrossChannel
  /\ selfReplyCount = 1
  /\ crossChannelReplyCount = 1

NoRepeat(s) == \A i, j \in 1..Len(s) : i # j => s[i] # s[j]

\* the component search and the depth search take each node at most once
VisitedOnce ==
  /\ NoRepeat(chainNodeIds \o queue)
  /\ NoRepeat(depthOrder \o [k \in 1..Len(depthQueue) |-> depthQueue[k][1]])
  /\ Len(chainNodeIds) + Len(queue) <= Len(nodeIds)
  /\ Len(depthOrder) + Len(depthQueue) <= Len(nodeIds)

\* C6: buildReplyGraph terminates on every message list, reply cycles
\* included: both searches take each node at most once and the function
\* returns.
C6_Terminates == [](VisitedOnce) /\ <>(pc = "done")

\* a returned graph with a chain of two messages replying to each other
C6_Witness ==
  /\ pc = "done"
  /\ \E c \in 1..Len(chains) :
       /\ ChainRoots(chains[c]) = {}
       /\ Len(chains[c].nodes) = 2
       /\ \A e \in Range(chains[c].edges) : e.source # e.target

(***************************************************************************)
(* computePostScore                                                        *)
(*                                                                         *)
(* A text is read only through its length and through the test for         *)
(* "http://" or "https://", so a text is the record of the two.  Quotients *)
(* are exact here; the code's floating-point quotients can differ from     *)
(* them only where a product falls exactly on a half.                      *)
(***************************************************************************)
MaxCopies == 40     \* longest corpus of copies of two posts

MaxCorpus == 2      \* longest corpus of computePostScore

\* buildReplyGraph has no state
GraphStateIdle ==
  /\ includeCrossChannel = FALSE
  /\ selfReplyCount = 0
  /\ crossChannelReplyCount = 0
  /\ nodeIds = <<>>
  /\ edges = <<>>
  /\ nodes = <<>>
  /\ visited = {}
  /\ chains = <<>>
  /\ chainId = 0
  /\ startIdx = 0
  /\ queue = <<>>
  /\ chainNodeIds = <<>>
  /\ chainEdges = <<>>
  /\ rootId = 0
  /\ maxDepth = 0
  /\ depthQueue = <<>>
  /\ depthVisited = {}
  /\ depthOrder = <<>>

\* buildReplyGraph is not running
GraphIdle == messages = <<>> /\ GraphStateIdle

ScoreTexts == {[length |-> 0, link |-> FALSE], [length |-> 3, link |-> FALSE],
               [length |-> 10, link |-> TRUE], [length |-> 40, link |-> FALSE]}

ScoreReactions == {<<>>, <<1>>, <<2, 1>>}

\* the optional fields of a message other than text and reactions
PlainFields == [photo |-> <<>>, file |-> <<>>, media_type |-> <<>>,
                reply_to_message_id |-> <<>>, forwarded_from |-> <<>>]

AllFields == [photo |-> <<"p.jpg">>, file |-> <<>>, media_type |-> <<>>,
              reply_to_message_id |-> <<5>>, forwarded_from |-> <<"A">>]

ScoreFields ==
  {PlainFields, AllFields,
   [PlainFields EXCEPT !.photo = <<"p.jpg">>],
   [PlainFields EXCEPT !.file = <<"v.mp4">>, !.media_type = <<"video_file">>],
   [PlainFields EXCEPT !.reply_to_message_id = <<5>>],
   [PlainFields EXCEPT !.reply_to_message_id = <<0>>],
   [PlainFields EXCEPT !.forwarded_from = <<"A">>]}

ScoreMessage(type, reactions, text, f) ==
  [type |-> type, reactions |-> reactions, text |-> text,
   photo |-> f.photo, file |-> f.file, media_type |-> f.media_type,
   reply_to_message_id |-> f.reply_to_message_id,
   forwarded_from |-> f.forwarded_from]

\* the messages that are scored
ScoreTargets ==
  {ScoreMessage("message", r, t, f) :
     r \in ScoreReactions, t \in ScoreTexts, f \in ScoreFields}

\* the messages of a corpus: content-messages, and a service message that
\* carries the largest reactions and text
ScoreCorpusMessages ==
  {ScoreMessage("message", r, t, f) :
     r \in ScoreReactions, t \in ScoreTexts, f \in {PlainFields, AllFields}}
  \cup {ScoreMessage("service", <<2, 1>>, [length |-> 40, link |-> FALSE], PlainFields)}

\* Math.round(num / den) for num >= 0, den > 0: halves round up
RoundDiv(num, den) == (2 * num + den) \div (2 * den)

\* allMessages.filter(m => m.type === "message")
RECURSIVE Posts(_)
Posts(msgs) ==
  IF msgs = <<>> THEN <<>>
  ELSE IF Head(msgs).type = "message" THEN <<Head(msgs)>> \o Posts(Tail(msgs))
       ELSE Posts(Tail(msgs))

\* the loop over posts that keeps the largest reaction total
RECURSIVE MaxReactions(_)
MaxReactions(posts) ==
  IF posts = <<>> THEN 0
  ELSE Max2(ReactionTotal(posts[Len(posts)]), MaxReactions(SubSeq(posts, 1, Len(posts) - 1)))

\* the loop over posts that keeps the largest text length
RECURSIVE MaxTextLen(_)
MaxTextLen(posts) ==
  IF posts = <<>> THEN 0
  ELSE Max2(posts[Len(posts)].text.length, MaxTextLen(SubSeq(posts, 1, Len(posts) - 1)))

\* maxReactions > 0 ? Math.round((totalReactions / maxReactions) * 50) : 0
ReactionScore(totalReactions, maxReactions) ==
  IF maxReactions > 0 THEN RoundDiv(totalReactions * 50, maxReactions) ELSE 0

\* maxTextLen > 0
\*   ? Math.round(Math.min(textLen / Math.max(maxTextLen * 0.3, 1), 1) * 20) : 0
TextLengthScore(textLen, maxTextLen) ==
  IF maxTextLen > 0
  THEN IF 3 * maxTextLen > 10
       THEN \* the divisor is maxTextLen * 0.3
            IF 10 * textLen >= 3 * maxTextLen THEN 20
            ELSE RoundDiv(textLen * 200, 3 * maxTextLen)
       ELSE \* the divisor is 1
            IF textLen >= 1 THEN 20 ELSE 0
  ELSE 0

\* the breakdown of a message against the maxima of the corpus
Breakdown(m, maxReactions, maxTextLen) ==
  LET \* message.photo || message.file || message.media_type ? 1 : 0
      hasMedia == IF m.photo # <<>> \/ m.file # <<>> \/ m.media_type # <<>>
                  THEN 1 ELSE 0
      \* text.includes("http://") || text.includes("https://") ? 1 : 0
      hasLinks == IF m.text.link THEN 1 ELSE 0
      \* message.reply_to_message_id ? 1 : 0: an absent id and id 0 are falsy
      isReply == IF m.reply_to_message_id # <<>> /\ m.reply_to_message_id[1] # 0
                 THEN 1 ELSE 0
      \* message.forwarded_from ? 1 : 0
      isForwarded == IF m.forwarded_from # <<>> THEN 1 ELSE 0
  IN [reactions |-> ReactionScore(ReactionTotal(m), maxReactions),
      textLength |-> TextLengthScore(m.text.length, maxTextLen),
      media |-> hasMedia * 10,
      links |-> hasLinks * 8,
      replies |-> isReply * 7,
      forwarded |-> isForwarded * 5]

\* the sum of the six entries, left as it is
TotalUnclipped(b) ==
  b.reactions + b.textLength + b.media + b.links + b.replies + b.forwarded

\* Math.min(100, sum of the six entries)
Total(b) ==
  Min2(100, b.reactions + b.textLength + b.media + b.links + b.replies + b.forwarded)

\* an entry of allScores: the score of a post of the corpus, as the map over
\* posts computes it
AllScore(m, maxReactions, maxTextLen) ==
  Min2(100,
       (IF maxReactions > 0 THEN RoundDiv(ReactionTotal(m) * 50, maxReactions) ELSE 0)
       + TextLengthScore(m.text.length, maxTextLen)
       + (IF m.photo # <<>> \/ m.file # <<>> \/ m.media_type # <<>> THEN 1 ELSE 0) * 10
       + (IF m.text.link THEN 1 ELSE 0) * 8
       + (IF m.reply_to_message_id # <<>> /\ m.reply_to_message_id[1] # 0
          THEN 1 ELSE 0) * 7
       + (IF m.forwarded_from # <<>> THEN 1 ELSE 0) * 5)

\* allScores.filter(s => s <= total).length; sorting does not change the count
Rank(posts, maxReactions, maxTextLen, total) ==
  Cardinality({i \in 1..Len(posts) :
                 AllScore(posts[i], maxReactions, maxTextLen) <= total})

\* Math.round((rank / Math.max(allScores.length, 1)) * 100), in double
\* arithmetic, for lists of at most 100 posts
Percentile(rank, n) ==
  LET \* the pairs <<rank, n>> with n <= 100 for which the double
      \* (rank / n) * 100 lies just under a half that the exact quotient reaches
      RoundsBelowHalf == {<<23, 40>>, <<46, 80>>}
  IN IF <<rank, Max2(n, 1)>> \in RoundsBelowHalf
     THEN RoundDiv(rank * 100, Max2(n, 1)) - 1
     ELSE RoundDiv(rank * 100, Max2(n, 1))

Label(percentile) ==
  IF percentile >= 95 THEN "Exceptional"
  ELSE IF percentile >= 80 THEN "Strong"
  ELSE IF percentile >= 60 THEN "Above Average"
  ELSE IF percentile >= 40 THEN "Average"
  ELSE IF percentile >= 20 THEN "Below Average"
  ELSE "Low"

ComputePostScoreOf(m, msgs) ==
  LET posts == Posts(msgs)
      maxReactions == MaxReactions(posts)
      maxTextLen == MaxTextLen(posts)
      breakdown == Breakdown(m, maxReactions, maxTextLen)
      total == Total(breakdown)
      percentile == Percentile(Rank(posts, maxReactions, maxTextLen, total), Len(posts))
  IN [total |-> total, breakdown |-> breakdown, percentile |-> percentile,
      label |-> Label(percentile)]

\* a post without text, media and reactions, and the same post with a reaction
QuietPost == ScoreMessage("message", <<>>, [length |-> 0, link |-> FALSE], PlainFields)

LikedPost == ScoreMessage("message", <<1>>, [length |-> 0, link |-> FALSE], PlainFields)

InitScore ==
  /\ GraphIdle
  /\ AnalyticsIdle
  /\ pc = "start"
  /\ \/ /\ message \in ScoreTargets
        /\ allMessages \in SeqsUpTo(ScoreCorpusMessages, MaxCorpus)
     \/ /\ message \in {QuietPost, LikedPost}
        \* a corpus of n posts, the first j of them quiet and the others liked
        /\ \E n \in 1..MaxCopies : \E j \in 0..n :
             allMessages = [i \in 1..n |-> IF i <= j THEN QuietPost ELSE LikedPost]
  /\ postScore = <<>>
  /\ target = <<>>
  /\ limit = 0
  /\ similar = <<>>

ComputePostScore ==
  /\ pc = "start"
  /\ postScore' = ComputePostScoreOf(message, allMessages)
  /\ pc' = "done"
  /\ UNCHANGED <<graphVars_noPc, analyticsVars, allMessages, message, target,
                 limit, similar>>

SpecScore == InitScore /\ [][ComputePostScore]_vars

\* C7: for every message and corpus (empty, single-message, without
\* reactions, or not holding the message), the total returned by
\* computePostScore is an integer between 0 and 100.
C7_TotalInRange ==
  pc = "done" => postScore.total \in 0..100

\* the scored message outscores a corpus it is not part of: the sum of the
\* entries is over 100
C7_Witness ==
  /\ pc = "done"
  /\ ~Contains(allMessages, message)
  /\ TotalUnclipped(postScore.breakdown) > 100
  /\ postScore.total = 100

\* C8: every entry of the breakdown stays within its weight: reactions in
\* 0..50, textLength in 0..20, media in {0, 10}, links in {0, 8}, replies in
\* {0, 7}, forwarded in {0, 5}, so that the six sum to at most 100; also for
\* a scored message that is not a content-message of the corpus.
C8_BreakdownWithinWeights ==
  pc = "done" =>
    /\ postScore.breakdown.reactions \in 0..50
    /\ postScore.breakdown.textLength \in 0..20
    /\ postScore.breakdown.media \in {0, 10}
    /\ postScore.breakdown.links \in {0, 8}
    /\ postScore.breakdown.replies \in {0, 7}
    /\ postScore.breakdown.forwarded \in {0, 5}
    /\ TotalUnclipped(postScore.breakdown) <= 100

\* the content-messages of the corpus
CorpusPosts == Posts(allMessages)

\* the total that computePostScore returns for the post at place i of the
\* corpus, scored against the corpus
CorpusTotal(i) == ComputePostScoreOf(CorpusPosts[i], allMessages).total

\* the posts of the corpus that score at most as much as the scored message
AtOrBelow == {i \in 1..Len(CorpusPosts) : CorpusTotal(i) <= postScore.total}

\* the scored message is a post of the corpus and no post scores more
IsTopPost ==
  /\ Contains(CorpusPosts, message)
  /\ \A i \in 1..Len(CorpusPosts) : CorpusTotal(i) <= postScore.total

\* C18 as stated: the percentile is round(100 * k / n), n the number of
\* content-messages of the corpus and k the number of them that score at
\* most the total of the scored message, each scored as computePostScore
\* scores it against the same corpus; a corpus post with the maximal total
\* has percentile 100 and the label Exceptional.
C18_PercentileIsRounded ==
  pc = "done" /\ Len(CorpusPosts) >= 1 =>
    /\ postScore.percentile =
         RoundDiv(100 * Cardinality(AtOrBelow), Len(CorpusPosts))
    /\ IsTopPost => postScore.percentile = 100 /\ postScore.label = "Exceptional"

(***************************************************************************)
(* findSimilarPosts                                                        *)
(*                                                                         *)
(* A text is a plain string, given as the sequence of its                  *)
(* whitespace-separated tokens.  What toLowerCase, the hashtag pattern     *)
(* /#[\w\u0400-\u04FF]+/ and the replacement of non-word characters do to  *)
(* a token is tabulated for the tokens of the vocabulary.                  *)
(***************************************************************************)
MaxPosts == 2       \* longest message list of findSimilarPosts

\* getMessageText(m).toLowerCase()
LowerText(m) ==
  LET \* token.toLowerCase()
      Lower(tok) ==
        CASE tok = "Bitcoin" -> "bitcoin"
          [] tok = "#Crypto" -> "#crypto"
          [] OTHER -> tok
  IN [i \in 1..Len(m.text) |-> Lower(m.text[i])]

\* the Set of the hashtags of a message
Hashtags(m) ==
  LET \* the match of /#[\w\u0400-\u04FF]+/ in a lower-case token, if any
      HashtagIn(tok) == IF tok \in {"#crypto", "#ai"} THEN {tok} ELSE {}
  IN UNION {HashtagIn(tok) : tok \in Range(LowerText(m))}

\* the Set of the significant words of a message
Words(m) ==
  LET \* token.replace(/[^\w\s\u0400-\u04FF]/g, " ").split(/\s+/): the "#" goes
      WordIn(tok) ==
        CASE tok = "#crypto" -> "crypto"
          [] tok = "#ai" -> "ai"
          [] OTHER -> tok
      \* w.length
      WordLength(w) ==
        CASE w = "bitcoin" -> 7
          [] w = "market" -> 6
          [] w = "prices" -> 6
          [] w = "update" -> 6
          [] w = "crypto" -> 6
          [] w = "their" -> 5
          [] w = "news" -> 4
          [] w = "ai" -> 2
      stopWords ==
        {"that", "this", "with", "from", "have", "been", "will", "your", "what",
         "when", "where", "which", "their", "there", "would", "could", "should",
         "about", "after", "before", "being", "between", "both", "each", "also",
         "than", "then", "them", "they", "into", "just", "very", "some", "more",
         "only", "over", "such", "like", "http", "https", "were", "does", "done",
         "make", "made", "much", "many", "most", "other", "these", "those"}
  IN {w \in {WordIn(tok) : tok \in Range(LowerText(m))} :
        WordLength(w) > 4 /\ w \notin stopWords}

\* score > 10, but a score of 10 passes
KeepsAtLeast(score) == score >= 10

\* if (score > 10) candidates.push(...)
Keeps(score) == score > 10

\* m.type === "message" && m.id !== target.id, but without the id test
IsCandidateAnyId(m, t) == m.type = "message"

\* m.type === "message" && m.id !== target.id
IsCandidate(m, t) == m.type = "message" /\ m.id # t.id

\* the score of one candidate against the target
SimilarityScore(t, msg) ==
  LET sharedHashtags == Cardinality(Hashtags(t) \cap Hashtags(msg))
      targetWords == Words(t)
      sharedWords == Cardinality(targetWords \cap Words(msg))
      wordScore == IF sharedWords > 0 /\ Cardinality(targetWords) > 0
                   THEN Min2(40, RoundDiv(sharedWords * 40,
                                          Max2(Cardinality(targetWords), 1)))
                   ELSE 0
      sourceScore == IF t.forwarded_from # <<>> /\ msg.forwarded_from = t.forwarded_from
                     THEN 15 ELSE 0
      mediaScore == IF t.media_type # <<>> /\ msg.media_type = t.media_type
                    THEN 5 ELSE 0
  IN sharedHashtags * 30 + wordScore + sourceScore + mediaScore

\* the loop over posts: the candidates that are kept, in list order
RECURSIVE Candidates(_, _)
Candidates(t, msgs) ==
  IF msgs = <<>> THEN <<>>
  ELSE LET msg == Head(msgs)
           score == SimilarityScore(t, msg)
       IN (IF IsCandidate(msg, t) /\ Keeps(score)
           THEN <<[message |-> msg, score |-> score]>> ELSE <<>>)
          \o Candidates(t, Tail(msgs))

\* candidates.sort((a, b) => b.score - a.score), a stable sort
RECURSIVE InsertByScore(_, _)
InsertByScore(sorted, c) ==
  IF sorted = <<>> THEN <<c>>
  ELSE IF Head(sorted).score >= c.score
       THEN <<Head(sorted)>> \o InsertByScore(Tail(sorted), c)
       ELSE <<c>> \o sorted

RECURSIVE SortByScore(_)
SortByScore(cs) ==
  IF cs = <<>> THEN <<>>
  ELSE InsertByScore(SortByScore(SubSeq(cs, 1, Len(cs) - 1)), cs[Len(cs)])

\* .slice(0, limit)
Slice(cs, n) == SubSeq(cs, 1, Min2(n, Len(cs)))

FindSimilarPostsOf(t, msgs, n) == Slice(SortByScore(Candidates(t, msgs)), n)

SimilarTexts ==
  {<<"bitcoin", "market", "prices", "update">>,
   <<"Bitcoin", "news">>,
   <<"#Crypto", "bitcoin">>,
   <<"#ai", "their", "news">>}

InitSimilar ==
  /\ GraphIdle
  /\ AnalyticsIdle
  /\ pc = "start"
  /\ target \in [id : {1}, type : {"message"}, text : SimilarTexts,
                  forwarded_from : {<<>>, <<"A">>}, media_type : {<<>>, <<"photo">>}]
  /\ LET \* the messages of the corpus: plain, forwarded from A with a photo,
         \* forwarded from B, or a service message
         SimilarMessages ==
           [id : {1, 2}, type : {"message"}, text : SimilarTexts,
            forwarded_from : {<<>>}, media_type : {<<>>}]
           \cup
           [id : {1, 2}, type : {"message"}, text : SimilarTexts,
            forwarded_from : {<<"A">>}, media_type : {<<"photo">>}]
           \cup
           [id : {1, 2}, type : {"message"}, text : SimilarTexts,
            forwarded_from : {<<"B">>}, media_type : {<<>>}]
           \cup
           [id : {1, 2}, type : {"service"}, text : {<<"Bitcoin", "news">>},
            forwarded_from : {<<>>}, media_type : {<<>>}]
     IN allMessages \in SeqsUpTo(SimilarMessages, MaxPosts)
  /\ limit \in {1, 6}
  /\ similar = <<>>
  /\ message = <<>>
  /\ postScore = <<>>

FindSimilarPosts ==
  /\ pc = "start"
  /\ similar' = FindSimilarPostsOf(target, allMessages, limit)
  /\ pc' = "done"
  /\ UNCHANGED <<graphVars_noPc, analyticsVars, allMessages, message, postScore,
                 target, limit>>

SpecSimilar == InitSimilar /\ [][FindSimilarPosts]_vars

\* positions of the content-messages other than the target
OtherPosts == {i \in 1..Len(allMessages) :
                 allMessages[i].type = "message" /\ allMessages[i].id # target.id}

ScoreAt(i) == SimilarityScore(target, allMessages[i])

InResult(i) ==
  \E k \in 1..Len(similar) :
    similar[k] = [message |-> allMessages[i], score |-> ScoreAt(i)]

\* C9 as stated: a candidate is kept exactly when its combined score is at
\* least 10: every result scores at least 10 and, up to the limit, every
\* candidate scoring 10 or more is a result.
C9_KeptFromTen ==
  pc = "done" =>
    /\ \A k \in 1..Len(similar) : similar[k].score >= 10
    /\ Len(similar) = Min2(limit, Cardinality({i \in OtherPosts : ScoreAt(i) >= 10}))
    /\ Cardinality({i \in OtherPosts : ScoreAt(i) >= 10}) <= limit =>
         \A i \in OtherPosts : ScoreAt(i) >= 10 => InResult(i)

\* C9 amended: a candidate is kept exactly when its combined score is above
\* 10: every result scores more than 10, a candidate scoring exactly 10 is
\* dropped and, up to the limit, every candidate scoring more than 10 is a
\* result.
C9_KeptAboveTen ==
  pc = "done" =>
    /\ \A k \in 1..Len(similar) :
         /\ similar[k].score > 10
         /\ \E i \in OtherPosts : similar[k].message = allMessages[i]
                                  /\ similar[k].score = ScoreAt(i)
    /\ Len(similar) = Min2(limit, Cardinality({i \in OtherPosts : ScoreAt(i) > 10}))
    /\ Cardinality({i \in OtherPosts : ScoreAt(i) > 10}) <= limit =>
         \A i \in OtherPosts : ScoreAt(i) > 10 => InResult(i)
    /\ \A i \in OtherPosts : ScoreAt(i) = 10 => ~InResult(i)

\* a candidate scoring exactly 10 next to one that is returned
C9_Witness ==
  /\ pc = "done"
  /\ \E i \in OtherPosts : ScoreAt(i) = 10
  /\ Len(similar) = 1

\* C10: no result of findSimilarPosts carries the target's id, also when the
\* list holds the target and it matches itself completely.
C10_TargetNotInResults ==
  pc = "done" => \A k \in 1..Len(similar) : similar[k].message.id # target.id

\* the list holds the target itself, which would score above 10, and another
\* post is returned
C10_Witness ==
  /\ pc = "done"
  /\ Contains(allMessages, target)
  /\ SimilarityScore(target, target) > 10
  /\ Len(similar) >= 1

(***************************************************************************)
(* computeWrappedStats (components/calendar-wrapped.tsx): the posts in     *)
(* scope, the set of active days and the streak.  A date is the local      *)
(* calendar date of msg.date; a string is the sequence of its character    *)
(* codes.  All days are taken to have 24 hours (no clock change).          *)
(***************************************************************************)
MaxDay == 11        \* posts fall on 1..MaxDay January and on 1 and 2 February

WrappedYear == 2024 \* the year of the explored export

\* the decimal digits of n >= 0, as character codes
RECURSIVE Digits(_)
Digits(n) == IF n < 10 THEN <<48 + n>> ELSE Digits(n \div 10) \o <<48 + (n % 10)>>

\* the number written by a sequence of digit codes
RECURSIVE NumberOf(_)
NumberOf(ds) ==
  IF ds = <<>> THEN 0
  ELSE 10 * NumberOf(SubSeq(ds, 1, Len(ds) - 1)) + (ds[Len(ds)] - 48)

\* d.getMonth(): months count from 0
GetMonth(date) == date.month - 1

\* a < b for strings, by code units: the order of Array.prototype.sort()
RECURSIVE LexLess(_, _)
LexLess(a, b) ==
  IF b = <<>> THEN FALSE
  ELSE IF a = <<>> THEN TRUE
  ELSE IF Head(a) # Head(b) THEN Head(a) < Head(b)
  ELSE LexLess(Tail(a), Tail(b))

\* Array.from(daySet).sort()
RECURSIVE SortKeys(_)
SortKeys(keys) ==
  IF keys = {} THEN <<>>
  ELSE LET least == CHOOSE k \in keys : \A o \in keys \ {k} : LexLess(k, o)
       IN <<least>> \o SortKeys(keys \ {least})

IsLeap(y) == (y % 4 = 0 /\ y % 100 # 0) \/ y % 400 = 0

RECURSIVE DaysBeforeMonth(_, _)
DaysBeforeMonth(y, mi) ==
  LET MonthLength(m) ==
        IF m = 1 THEN (IF IsLeap(y) THEN 29 ELSE 28)
        ELSE IF m \in {3, 5, 8, 10} THEN 30 ELSE 31
  IN IF mi = 0 THEN 0 ELSE DaysBeforeMonth(y, mi - 1) + MonthLength(mi - 1)

\* the day number of year y, month index mi, day d; days run on past the end
\* of a month and month index -1 is December of the year before
DayNumber(y, mi, d) ==
  LET \* days from 1 January of WrappedYear to 1 January of yr, for the years
      \* next to it
      YearStart(yr) ==
        IF yr = WrappedYear THEN 0
        ELSE IF yr < WrappedYear THEN 0 - (IF IsLeap(yr) THEN 366 ELSE 365)
        ELSE (IF IsLeap(WrappedYear) THEN 366 ELSE 365)
  IN IF mi < 0 THEN YearStart(y - 1) + DaysBeforeMonth(y - 1, mi + 12) + d - 1
     ELSE YearStart(y) + DaysBeforeMonth(y, mi) + d - 1

\* new Date(key.replace(/-/g, "/")).getTime() in days: <<>> is NaN (Invalid
\* Date).  The string "Y/M/D" is not in the ISO format, so its reading is
\* left to the engine: the written month 1..12 is month index 0..11; a
\* written month 0 is either rejected ("strict") or read as month index -1
\* ("lenient").
ParseDay(key, parsing) ==
  LET str == [i \in 1..Len(key) |-> IF key[i] = 45 THEN 47 ELSE key[i]]
      cut1 == CHOOSE i \in 1..Len(str) : str[i] = 47
      cut2 == CHOOSE i \in (cut1 + 1)..Len(str) : str[i] = 47
      f == [year |-> NumberOf(SubSeq(str, 1, cut1 - 1)),
            month |-> NumberOf(SubSeq(str, cut1 + 1, cut2 - 1)),
            day |-> NumberOf(SubSeq(str, cut2 + 1, Len(str)))]
  IN IF f.month \in 1..12 /\ f.day \in 1..31
     THEN <<DayNumber(f.year, f.month - 1, f.day)>>
     ELSE IF f.month = 0 /\ f.day \in 1..31 /\ parsing = "lenient"
          THEN <<DayNumber(f.year, 0 - 1, f.day)>>
          ELSE <<>>

\* the streak loop over sortedDays from index i; st = [maxStreak, currentStreak]
RECURSIVE StreakLoop(_, _, _, _)
StreakLoop(sortedDays, i, parsing, st) ==
  IF i > Len(sortedDays) THEN st
  ELSE LET prev == ParseDay(sortedDays[i - 1], parsing)
           curr == ParseDay(sortedDays[i], parsing)
           \* diff === 1, false when a date is invalid
           diffIsOne == prev # <<>> /\ curr # <<>> /\ curr[1] - prev[1] = 1
       IN StreakLoop(sortedDays, i + 1, parsing,
            IF diffIsOne
            THEN [st EXCEPT !.currentStreak = @ + 1]
            ELSE [maxStreak |-> Max2(st.maxStreak, st.currentStreak),
                  currentStreak |-> 1])

\* the filter of messages to the scope
InScope(m, sc) ==
  /\ m.type = "message"
  /\ IF sc.type = "year" THEN m.date.year = sc.year
     ELSE IF sc.type = "month"
          THEN m.date.year = sc.year /\ GetMonth(m.date) = sc.month
          ELSE m.date.year = sc.year /\ GetMonth(m.date) = sc.month
               /\ m.date.day = sc.day

RECURSIVE Filtered(_, _)
Filtered(msgs, sc) ==
  IF msgs = <<>> THEN <<>>
  ELSE IF InScope(Head(msgs), sc) THEN <<Head(msgs)>> \o Filtered(Tail(msgs), sc)
       ELSE Filtered(Tail(msgs), sc)

ComputeWrappedStatsOf(msgs, sc, parsing) ==
  LET filtered == Filtered(msgs, sc)
      \* `${d.getFullYear()}-${d.getMonth()}-${d.getDate()}`
      DayKey(date) ==
        Digits(date.year) \o <<45>> \o Digits(GetMonth(date)) \o <<45>>
        \o Digits(date.day)
      daySet == {DayKey(filtered[i].date) : i \in 1..Len(filtered)}
      \* the streak loop and the closing Math.max
      st == StreakLoop(SortKeys(daySet), 2, parsing,
                       [maxStreak |-> 0, currentStreak |-> 1])
  IN [totalPosts |-> Len(filtered),
      activeDays |-> Cardinality(daySet),
      streakDays |-> Max2(st.maxStreak, st.currentStreak)]

\* the true day number of a calendar date
TrueDay(date) == DayNumber(date.year, date.month - 1, date.day)

\* one content-message per date of a set, in the order of the dates
RECURSIVE PostsOn(_)
PostsOn(dates) ==
  IF dates = {} THEN <<>>
  ELSE LET first == CHOOSE d \in dates : \A o \in dates : TrueDay(d) <= TrueDay(o)
       IN <<[id |-> TrueDay(first) + 1, type |-> "message", date |-> first]>>
          \o PostsOn(dates \ {first})

InitWrapped ==
  /\ GraphStateIdle
  /\ ScoringIdle
  /\ FraudIdle
  /\ GroupIdle
  /\ ForwardIdle
  /\ AppIdle
  /\ pc = "start"
  /\ LET \* the calendar dates that carry posts
         WrappedDates ==
           {[year |-> WrappedYear, month |-> 1, day |-> d] : d \in 1..MaxDay}
           \cup {[year |-> WrappedYear, month |-> 2, day |-> d] : d \in {1, 2}}
         \* a service event on 6 January
         ServiceEvent == [id |-> 500, type |-> "service",
                          date |-> [year |-> WrappedYear, month |-> 1, day |-> 6]]
     IN \E dates \in SUBSET WrappedDates, service \in BOOLEAN :
          messages = PostsOn(dates) \o (IF service THEN <<ServiceEvent>> ELSE <<>>)
  /\ scope \in {[type |-> "year", year |-> WrappedYear, month |-> 0, day |-> 0],
                [type |-> "month", year |-> WrappedYear, month |-> 0, day |-> 0],
                [type |-> "month", year |-> WrappedYear, month |-> 1, day |-> 0]}
  /\ dateParsing \in {"strict", "lenient"}
  /\ wrappedStats = <<>>

ComputeWrappedStats ==
  /\ pc = "start"
  /\ wrappedStats' = ComputeWrappedStatsOf(messages, scope, dateParsing)
  /\ pc' = "done"
  /\ UNCHANGED <<graphVars_noPc, scoringVars, scope, dateParsing, fraudVars,
                 groupVars, forwardVars, appVars>>

SpecWrapped == InitWrapped /\ [][ComputeWrappedStats]_vars

\* the true day numbers of the content-messages in scope
ActiveDays ==
  {TrueDay(messages[i].date) :
     i \in {j \in 1..Len(messages) : InScope(messages[j], scope)}}

\* the length of the longest run of consecutive numbers in a set
LongestRun(days) ==
  IF days = {} THEN 0
  ELSE CHOOSE n \in 1..Cardinality(days) :
         /\ \E a \in days : \A k \in 0..(n - 1) : a + k \in days
         /\ ~\E a \in days : \A k \in 0..n : a + k \in days

\* posts on 1..5, 10 and 11 January
StreakExample ==
  PostsOn({[year |-> WrappedYear, month |-> 1, day |-> d] : d \in {1, 2, 3, 4, 5, 10, 11}})

\* C11: streakDays is the length of the longest run of consecutive calendar
\* days that each have a content-message in scope; for posts on 1..5 January
\* and on 10 and 11 January (year or month scope) it is 5.
C11_StreakIsLongestRun ==
  pc = "done" =>
    /\ wrappedStats.streakDays = LongestRun(ActiveDays)
    /\ messages = StreakExample /\ scope.type \in {"year", "month"} /\ scope.month = 0
         => wrappedStats.streakDays = 5

(***************************************************************************)
(* analyzeMessageForFraud (fraud detector)                                 *)
(*                                                                         *)
(* A text is a plain string, given as the sequence of its fragments, which *)
(* single spaces join.  What a fragment contains is tabulated: the         *)
(* patterns that its lower-case form includes, the regular expressions     *)
(* that match it and the reasons checkSuspiciousUrl gives for its URL.  No *)
(* pattern matches across the space between two fragments of the           *)
(* vocabulary.                                                             *)
(***************************************************************************)
MaxFrags == 3       \* most fragments in a text

FraudFragments ==
  {"ok see you tomorrow", "URGENT:", "please send me $500", "immediately,",
   "family emergency", "http://bit.ly/x", "confirm your account",
   "i'm the admin", "transfer", "asap", "verify your profile"}

\* what a fragment is to the detector: its length, the patterns p with
\* fragment.toLowerCase().includes(p), the regular expressions that match it
\* and the reasons checkSuspiciousUrl gives for its URL.  Of the regular
\* expressions, "amount" is /\$?\d+\s*(usd|eur|gbp|btc|eth)?|\$\d+/gi,
\* "credentials" is /password|login|credential|username/i, "suspension" is
\* /suspended|disabled|blocked|banned\s+permanently/i and "private" is
\* /(dm|message)\s+me\s+privately?|contact\s+me\s+privately?|don't\s+tell/i
Fragment(frag) ==
  LET F(length, includes, matches, urlReasons) ==
        [length |-> length, includes |-> includes, matches |-> matches,
         urlReasons |-> urlReasons]
  IN CASE frag = "ok see you tomorrow" -> F(19, {}, {}, <<>>)
       [] frag = "URGENT:" -> F(7, {"urgent"}, {}, <<>>)
       [] frag = "please send me $500" -> F(19, {"send me"}, {"amount"}, <<>>)
       [] frag = "immediately," -> F(12, {"immediately"}, {}, <<>>)
       [] frag = "family emergency" ->
            F(16, {"emergency", "family", "family emergency"}, {}, <<>>)
       [] frag = "http://bit.ly/x" ->
            F(15, {}, {},
              <<<<"Suspicious domain", "bit.ly">>,
                <<"URL shortener detected (hides real destination)">>>>)
       [] frag = "confirm your account" ->
            F(20, {"account", "confirm your account"}, {}, <<>>)
       [] frag = "i'm the admin" -> F(13, {"i'm", "i'm the admin"}, {}, <<>>)
       [] frag = "transfer" -> F(8, {"transfer"}, {}, <<>>)
       [] frag = "asap" -> F(4, {"asap"}, {}, <<>>)
       [] frag = "verify your profile" -> F(19, {"profile", "verify"}, {}, <<>>)

PHISHING_KEYWORDS ==
  <<"click here to verify", "confirm your account", "suspicious activity",
    "account will be suspended", "verify your identity", "login to continue",
    "update your information", "security alert", "unusual login",
    "confirm password", "validate account", "reactivate account">>

\* "send (euro)" and "send (pound)" stand for the keywords with the signs
MONEY_KEYWORDS ==
  <<"send me", "transfer", "wire money", "send money", "pay me",
    "urgent payment", "immediately", "asap", "right now", "don't delay",
    "family emergency", "hospital", "accident", "stuck in",
    "lost my wallet", "phone died", "stranded", "need help",
    "double your money", "guaranteed return", "investment opportunity",
    "crypto opportunity", "forex trading", "binary options",
    "send $", "send (euro)", "send (pound)", "transfer $", "wire $",
    "bitcoin", "ethereum", "crypto", "usdt", "tether",
    "western union", "moneygram", "gift card", "itunes card">>

IMPERSONATION_PATTERNS ==
  <<"i am the admin", "i'm the admin", "this is official",
    "telegram support", "telegram team", "official team",
    "as your admin", "channel owner", "group administrator",
    "i work for telegram", "telegram staff", "support team",
    "verify your account", "mandatory verification",
    "dm me to verify", "message me privately", "don't tell anyone">>

URGENCY_PATTERNS ==
  <<"act now", "limited time", "expires soon", "last chance",
    "only today", "24 hours only", "urgent", "emergency",
    "hurry", "don't wait", "immediately", "right away",
    "quickly", "as soon as possible", "time sensitive">>

\* text.length
RECURSIVE TextLength(_)
TextLength(text) ==
  IF text = <<>> THEN 0
  ELSE IF Len(text) = 1 THEN Fragment(text[1]).length
  ELSE Fragment(Head(text)).length + 1 + TextLength(Tail(text))

\* text.toLowerCase().includes(p)
Includes(text, p) == \E i \in 1..Len(text) : p \in Fragment(text[i]).includes

\* regex.test(text)
Test(text, regex) == \E i \in 1..Len(text) : regex \in Fragment(text[i]).matches

\* the patterns of a list that the text includes, in the order of the list
IncludedOf(list, text) ==
  FilterSeq(list, {p \in Range(list) : Includes(text, p)})

\* one reason per pattern
ReasonsFor(kind, patterns) == [i \in 1..Len(patterns) |-> <<kind, patterns[i]>>]

\* checkSuspiciousUrl: the reasons of every URL of the text, in order
RECURSIVE UrlReasons(_)
UrlReasons(text) ==
  IF text = <<>> THEN <<>> ELSE Fragment(Head(text)).urlReasons \o UrlReasons(Tail(text))

CheckSuspiciousUrl(text) ==
  LET reasons == UrlReasons(text)
  IN [isSuspicious |-> Len(reasons) > 0, reasons |-> reasons]

\* hasUrgency && hasMoney, but only for two different patterns
HasUrgencyAndMoneyDistinct(text) ==
  \E i \in 1..Len(URGENCY_PATTERNS), j \in 1..Len(MONEY_KEYWORDS) :
    /\ URGENCY_PATTERNS[i] # MONEY_KEYWORDS[j]
    /\ Includes(text, URGENCY_PATTERNS[i])
    /\ Includes(text, MONEY_KEYWORDS[j])

\* hasUrgency && hasMoney
HasUrgencyAndMoney(text) ==
  /\ \E i \in 1..Len(URGENCY_PATTERNS) : Includes(text, URGENCY_PATTERNS[i])
  /\ \E i \in 1..Len(MONEY_KEYWORDS) : Includes(text, MONEY_KEYWORDS[i])

CheckMoneyRequest(text) ==
  LET emotionalWords == <<"please help", "beg you", "desperate", "emergency", "family">>
      keywords == IncludedOf(MONEY_KEYWORDS, text)
      amount == Test(text, "amount")
      combination == HasUrgencyAndMoney(text)
      emotional == IncludedOf(emotionalWords, text)
      score == 3 * Len(keywords) + (IF amount THEN 2 ELSE 0)
               + (IF combination THEN 5 ELSE 0) + 2 * Len(emotional)
  IN [detected |-> score > 0,
      reasons |-> ReasonsFor("Money keyword", keywords)
                  \o (IF amount THEN <<<<"Specific amount mentioned">>>> ELSE <<>>)
                  \o (IF combination
                      THEN <<<<"Urgency + money request combination (high risk)">>>>
                      ELSE <<>>)
                  \o ReasonsFor("Emotional manipulation", emotional),
      score |-> score]

CheckImpersonation(text) ==
  LET authorityWords == <<"official", "administrator", "moderator", "support", "staff">>
      \* lowerText.includes(word) && lowerText.includes("i am")
      \*   || lowerText.includes("i'm")
      AuthorityClaim(t, word) ==
        (Includes(t, word) /\ Includes(t, "i am")) \/ Includes(t, "i'm")
      patterns == IncludedOf(IMPERSONATION_PATTERNS, text)
      authority == FilterSeq(authorityWords,
                             {w \in Range(authorityWords) : AuthorityClaim(text, w)})
      verification == Includes(text, "verify")
                      /\ (Includes(text, "account") \/ Includes(text, "profile"))
      private == Test(text, "private")
      score == 4 * Len(patterns) + 3 * Len(authority)
               + (IF verification THEN 3 ELSE 0) + (IF private THEN 4 ELSE 0)
  IN [detected |-> score > 0,
      reasons |-> ReasonsFor("Impersonation claim", patterns)
                  \o ReasonsFor("Authority claim", authority)
                  \o (IF verification THEN <<<<"Demands account verification">>>> ELSE <<>>)
                  \o (IF private
                      THEN <<<<"Requests private communication (isolation tactic)">>>>
                      ELSE <<>>),
      score |-> score]

CheckPhishing(text) ==
  LET keywords == IncludedOf(PHISHING_KEYWORDS, text)
      credentials == Test(text, "credentials")
      suspension == Test(text, "suspension")
      score == 3 * Len(keywords) + (IF credentials THEN 5 ELSE 0)
               + (IF suspension THEN 4 ELSE 0)
  IN [detected |-> score > 0,
      reasons |-> ReasonsFor("Phishing phrase", keywords)
                  \o (IF credentials
                      THEN <<<<"Requests credentials or login info">>>> ELSE <<>>)
                  \o (IF suspension THEN <<<<"Threatens account suspension">>>> ELSE <<>>),
      score |-> score]

\* the test of the urgency language
UrgencyCheck(text) ==
  Includes(text, "urgent") \/ Includes(text, "emergency") \/ Includes(text, "immediately")

\* Severity, but 10 is still high
SeverityAboveTen(score) ==
  IF score > 10 THEN "critical"
  ELSE IF score >= 7 THEN "high"
  ELSE IF score >= 4 THEN "medium"
  ELSE "low"

\* the severity of a total score
Severity(score) ==
  IF score >= 10 THEN "critical"
  ELSE IF score >= 7 THEN "high"
  ELSE IF score >= 4 THEN "medium"
  ELSE "low"

\* primaryType after the impersonation check, but impersonation always wins
PrimaryTypeImpersonationFirst(url, phishing, money, impersonation) ==
  IF impersonation.detected THEN "impersonation"
  ELSE IF money.detected THEN "money_request"
  ELSE IF url.isSuspicious /\ phishing.detected THEN "phishing"
  ELSE "suspicious_link"

\* primaryType after the three checks, assignment by assignment
PrimaryType(url, phishing, money, impersonation) ==
  LET afterUrl == IF url.isSuspicious /\ phishing.detected
                  THEN "phishing" ELSE "suspicious_link"
      afterMoney == IF money.detected THEN "money_request" ELSE afterUrl
  IN IF impersonation.detected /\ afterMoney # "money_request"
     THEN "impersonation" ELSE afterMoney

\* totalScore, but the impersonation score is assigned, not added
TotalScoreAssigned(urlCheck, phishingCheck, moneyCheck, impersonationCheck, urgencyCheck) ==
  (IF impersonationCheck.detected THEN impersonationCheck.score
   ELSE (IF urlCheck.isSuspicious THEN 2 * Len(urlCheck.reasons) ELSE 0)
        + (IF urlCheck.isSuspicious /\ phishingCheck.detected
           THEN phishingCheck.score ELSE 0)
        + (IF moneyCheck.detected THEN moneyCheck.score ELSE 0))
  + (IF urgencyCheck THEN 2 ELSE 0)

\* totalScore after the checks, addition by addition
TotalScore(urlCheck, phishingCheck, moneyCheck, impersonationCheck, urgencyCheck) ==
  (IF urlCheck.isSuspicious THEN 2 * Len(urlCheck.reasons) ELSE 0)
  + (IF urlCheck.isSuspicious /\ phishingCheck.detected THEN phishingCheck.score ELSE 0)
  + (IF moneyCheck.detected THEN moneyCheck.score ELSE 0)
  + (IF impersonationCheck.detected THEN impersonationCheck.score ELSE 0)
  + (IF urgencyCheck THEN 2 ELSE 0)

\* the text is scanned: a content-message with a text of 5 characters or more
IsScanned(m) == m.type = "message" /\ m.text # <<>> /\ TextLength(m.text) >= 5

\* the body of analyzeMessageForFraud after the two early returns: the total
\* score and the result, <<>> for null
AnalyzeText(m) ==
  LET text == m.text
      urlCheck == CheckSuspiciousUrl(text)
      phishingCheck == CheckPhishing(text)
      moneyCheck == CheckMoneyRequest(text)
      impersonationCheck == CheckImpersonation(text)
      urgencyCheck == UrgencyCheck(text)
      phishingAdded == urlCheck.isSuspicious /\ phishingCheck.detected
      total == TotalScore(urlCheck, phishingCheck, moneyCheck, impersonationCheck,
                          urgencyCheck)
      reasons == (IF urlCheck.isSuspicious THEN urlCheck.reasons ELSE <<>>)
                 \o (IF phishingAdded THEN phishingCheck.reasons ELSE <<>>)
                 \o (IF moneyCheck.detected THEN moneyCheck.reasons ELSE <<>>)
                 \o (IF impersonationCheck.detected
                     THEN impersonationCheck.reasons ELSE <<>>)
                 \o (IF urgencyCheck THEN <<<<"Uses urgency language">>>> ELSE <<>>)
      matchedPatterns ==
                 (IF urlCheck.isSuspicious THEN <<"suspicious_url">> ELSE <<>>)
                 \o (IF moneyCheck.detected THEN <<"money_request">> ELSE <<>>)
                 \o (IF impersonationCheck.detected THEN <<"impersonation">> ELSE <<>>)
                 \o (IF urgencyCheck THEN <<"urgency">> ELSE <<>>)
  IN [totalScore |-> total,
      result |-> IF total < 3 THEN <<>>
                 ELSE <<[message |-> m,
                         type |-> PrimaryType(urlCheck, phishingCheck, moneyCheck,
                                              impersonationCheck),
                         severity |-> Severity(total),
                         score |-> total,
                         reasons |-> reasons,
                         matchedPatterns |-> matchedPatterns]>>]

\* the text "URGENT: please send me $500 immediately, family emergency"
UrgentMoneyExample ==
  <<"URGENT:", "please send me $500", "immediately,", "family emergency">>

InitFraud ==
  /\ GraphIdle
  /\ WrappedIdle
  /\ GroupIdle
  /\ ForwardIdle
  /\ AppIdle
  /\ pc = "start"
  /\ message \in [id : {1}, type : {"message", "service"},
                   text : SeqsUpTo(FraudFragments, MaxFrags) \cup {UrgentMoneyExample}]
  /\ allMessages = <<>>
  /\ postScore = <<>>
  /\ target = <<>>
  /\ limit = 0
  /\ similar = <<>>
  /\ totalScore = <<>>
  /\ fraudResult = <<>>

\* the early returns: not a content-message, no text, a text under 5 characters
ReturnNull ==
  /\ pc = "start"
  /\ ~IsScanned(message)
  /\ pc' = "done"
  /\ UNCHANGED <<graphVars_noPc, scoringVars, wrappedVars, fraudVars, groupVars,
                 forwardVars, appVars>>

AnalyzeMessageForFraud ==
  /\ pc = "start"
  /\ IsScanned(message)
  /\ totalScore' = <<AnalyzeText(message).totalScore>>
  /\ fraudResult' = AnalyzeText(message).result
  /\ pc' = "done"
  /\ UNCHANGED <<graphVars_noPc, scoringVars, wrappedVars, groupVars, forwardVars,
                 appVars>>

SpecFraud == InitFraud /\ [][ReturnNull \/ AnalyzeMessageForFraud]_vars

\* C12: the primary type of a result follows a fixed priority: money_request
\* whenever the money check detects anything, otherwise impersonation
\* whenever the impersonation check detects anything, otherwise phishing if
\* a suspicious URL and a phishing signal are both present, otherwise
\* suspicious_link; the sizes of the sub-scores play no part.
C12_TypePriority ==
  pc = "done" /\ fraudResult # <<>> =>
    fraudResult[1].type =
      IF CheckMoneyRequest(message.text).detected THEN "money_request"
      ELSE IF CheckImpersonation(message.text).detected THEN "impersonation"
      ELSE IF CheckSuspiciousUrl(message.text).isSuspicious
              /\ CheckPhishing(message.text).detected THEN "phishing"
      ELSE "suspicious_link"

\* a result of type money_request whose impersonation score is the larger one
C12_Witness ==
  /\ pc = "done"
  /\ fraudResult # <<>>
  /\ fraudResult[1].type = "money_request"
  /\ CheckImpersonation(message.text).score > CheckMoneyRequest(message.text).score

\* C13: a result is returned only for content-messages with a total score of
\* at least 3 (the text "ok see you tomorrow", which matches no rule, yields
\* null); the severity of a result is the bucket of its score: critical from
\* 10, high for 7..9, medium for 4..6, low for 3.
C13_FloorAndSeverity ==
  pc = "done" =>
    /\ fraudResult # <<>> =>
         /\ message.type = "message"
         /\ fraudResult[1].score >= 3
         /\ fraudResult[1].score = totalScore[1]
         /\ fraudResult[1].severity = "critical" <=> fraudResult[1].score >= 10
         /\ fraudResult[1].severity = "high" <=> fraudResult[1].score \in 7..9
         /\ fraudResult[1].severity = "medium" <=> fraudResult[1].score \in 4..6
         /\ fraudResult[1].severity = "low" <=> fraudResult[1].score = 3
    /\ message.text = <<"ok see you tomorrow">> => fraudResult = <<>>

\* a result with a score of exactly 10
C13_Witness ==
  /\ pc = "done"
  /\ fraudResult # <<>>
  /\ fraudResult[1].score = 10
  /\ fraudResult[1].severity = "critical"

\* C14: a content-message whose text matches an urgency pattern and a money
\* keyword receives the urgency + money bonus and is returned with type
\* money_request and a severity of at least medium.
C14_UrgencyAndMoney ==
  pc = "done" /\ message.type = "message"
    /\ (\E i \in 1..Len(URGENCY_PATTERNS) : Includes(message.text, URGENCY_PATTERNS[i]))
    /\ (\E i \in 1..Len(MONEY_KEYWORDS) : Includes(message.text, MONEY_KEYWORDS[i]))
  => /\ fraudResult # <<>>
     /\ Contains(fraudResult[1].reasons,
                 <<"Urgency + money request combination (high risk)">>)
     /\ fraudResult[1].score >=
          5 + 3 * Len(IncludedOf(MONEY_KEYWORDS, message.text))
     /\ fraudResult[1].type = "money_request"
     /\ fraudResult[1].severity \in {"medium", "high", "critical"}

\* the text of the example has been analysed
C14_Witness ==
  /\ pc = "done"
  /\ message.type = "message"
  /\ message.text = UrgentMoneyExample
  /\ fraudResult # <<>>
  /\ fraudResult[1].type = "money_request"
  /\ fraudResult[1].score = 22

\* the rules that a text matches: keywords, regular expressions, URL reasons
MatchedRules(text) ==
  Range(UrlReasons(text))
  \cup Range(CheckPhishing(text).reasons)
  \cup Range(CheckMoneyRequest(text).reasons)
  \cup Range(CheckImpersonation(text).reasons)
  \cup Range(ReasonsFor("Urgency pattern", IncludedOf(URGENCY_PATTERNS, text)))
  \cup (IF UrgencyCheck(text) THEN {<<"Uses urgency language">>} ELSE {})

\* how often a reason occurs among the reasons of checkSuspiciousUrl
UrlReasonCount(reasons, reason) ==
  Cardinality({i \in 1..Len(reasons) : reasons[i] = reason})

\* the texts of at most two fragments that are scanned, with what they match
OtherTexts ==
  {[rules |-> MatchedRules(t),
    urlReasons |-> UrlReasons(t),
    score |-> AnalyzeText([id |-> 2, type |-> "message", text |-> t]).totalScore] :
     t \in {o \in SeqsUpTo(FraudFragments, 2) : o # <<>> /\ TextLength(o) >= 5}}

\* C15 as stated: if the rules matched by text A are a subset of the rules
\* matched by text B, the score of B is at least the score of A.
C15_MonotoneInRuleSet ==
  pc = "done" /\ totalScore # <<>> =>
    LET rules == MatchedRules(message.text)
    IN \A b \in OtherTexts :
         rules \subseteq b.rules => totalScore[1] <= b.score

\* C15 amended: if the rules matched by text A are a subset of the rules
\* matched by text B and checkSuspiciousUrl gives every reason for B at least
\* as often as for A, the score of B is at least the score of A.
C15_MonotoneInRuleCounts ==
  pc = "done" /\ totalScore # <<>> =>
    LET rules == MatchedRules(message.text)
        urlReasons == UrlReasons(message.text)
    IN \A b \in OtherTexts :
         /\ rules \subseteq b.rules
         /\ \A r \in Range(urlReasons) :
              UrlReasonCount(urlReasons, r) <= UrlReasonCount(b.urlReasons, r)
         => totalScore[1] <= b.score

\* a text with a URL reason, and a text matching more rules with a higher score
C15_Witness ==
  /\ pc = "done"
  /\ totalScore # <<>>
  /\ UrlReasons(message.text) # <<>>
  /\ \E b \in OtherTexts :
       /\ MatchedRules(message.text) \subseteq b.rules
       /\ MatchedRules(message.text) # b.rules
       /\ \A r \in Range(UrlReasons(message.text)) :
            UrlReasonCount(UrlReasons(message.text), r)
              <= UrlReasonCount(b.urlReasons, r)
       /\ totalScore[1] < b.score

(***************************************************************************)
(* computeInteractionMap (lib/group-analytics.ts)                          *)
(*                                                                         *)
(* The ids of the messages of a list are their positions.  An optional     *)
(* field is <<>> or <<v>>; a reaction carries the from_id values of its    *)
(* recent array.  Sender identifiers hold no "_", so the join("__") of a   *)
(* sorted pair is given as the pair.                                       *)
(***************************************************************************)
MaxGroup == 3       \* longest message list of computeInteractionMap

\* a || b for optional strings: an absent or empty a gives b
OrElse(a, b) == IF a # <<>> /\ a[1] # "" THEN a ELSE b

\* s.sort((a, b) => key(b) - key(a)), a stable sort: the greatest key first,
\* equal keys in the order of s; key[i] is the key of s[i]
SortDescending(s, key) ==
  LET n == Len(s)
      place(i) ==
        1 + Cardinality({j \in 1..n : key[j] > key[i] \/ (j < i /\ key[j] = key[i])})
  IN [k \in 1..n |-> s[CHOOSE i \in 1..n : place(i) = k]]

\* msg.from_id || msg.actor_id || ""
InteractionFromId(msg) == OrElse(OrElse(msg.from_id, msg.actor_id), <<"">>)[1]

\* msg.from || msg.actor || "Unknown"
FromName(msg) == OrElse(OrElse(msg.from, msg.actor), <<"Unknown">>)[1]

\* edgeKey(a, b): [a, b].sort().join("__")
EdgeKey(a, b) ==
  LET \* the place of an identifier in the order of Array.prototype.sort()
      IdRank(id) ==
        CASE id = "" -> 0
          [] id = "userA" -> 1
          [] id = "userB" -> 2
          [] id = "userC" -> 3
  IN IF IdRank(a) <= IdRank(b) THEN <<a, b>> ELSE <<b, a>>

\* if (!edgeMap.has(key)) edgeMap.set(key, {...}); edgeMap.get(key).<count>++
CountOnEdge(edgeMap, key, fresh, field) ==
  LET \* edgeMap.has(key): an edge is kept with its key
      has == \E i \in 1..Len(edgeMap) : edgeMap[i].key = key
      ensured == IF has THEN edgeMap ELSE Append(edgeMap, [fresh EXCEPT !.key = key])
  IN [i \in 1..Len(ensured) |->
        IF ensured[i].key = key
        THEN [ensured[i] EXCEPT ![field] = @ + 1]
        ELSE ensured[i]]

\* the recent entries of every reaction of a message, in order
RECURSIVE RecentEntries(_)
RecentEntries(reactions) ==
  IF reactions = <<>> THEN <<>>
  ELSE Head(reactions).recent \o RecentEntries(Tail(reactions))

\* the reaction interactions of one message, entry by entry
RECURSIVE ReactionInteractions(_, _, _)
ReactionInteractions(edgeMap, msg, recents) ==
  IF recents = <<>> THEN edgeMap
  ELSE LET fromId == InteractionFromId(msg)
           recent == Head(recents)
       IN ReactionInteractions(
            IF recent.from_id # fromId
            THEN CountOnEdge(edgeMap, EdgeKey(fromId, recent.from_id),
                             [key |-> <<>>, from |-> FromName(msg), fromId |-> fromId,
                              to |-> recent.from, toId |-> recent.from_id,
                              replyCount |-> 0, reactionCount |-> 0],
                             "reactionCount")
            ELSE edgeMap,
            msg, Tail(recents))

\* the loop over the messages from index i
RECURSIVE InteractionLoop(_, _, _)
InteractionLoop(edgeMap, msgs, i) ==
  IF i > Len(msgs) THEN edgeMap
  ELSE IF msgs[i].type # "message" THEN InteractionLoop(edgeMap, msgs, i + 1)
  ELSE LET \* the reply interaction of one message
           ReplyInteraction(msg) ==
               LET fromId == InteractionFromId(msg)
               IN IF msg.reply_to_message_id # <<>> /\ msg.reply_to_message_id[1] # 0
                     /\ MessageMapHas(msgs, msg.reply_to_message_id[1])
                  THEN LET parent == MessageMapGet(msgs, msg.reply_to_message_id[1])
                       IN IF parent.from_id # <<>> /\ parent.from_id[1] # ""
                             /\ parent.from_id[1] # fromId
                          THEN CountOnEdge(edgeMap, EdgeKey(fromId, parent.from_id[1]),
                                           [key |-> <<>>, from |-> FromName(msg), fromId |-> fromId,
                                            to |-> OrElse(parent.from, <<"Unknown">>)[1],
                                            toId |-> parent.from_id[1],
                                            replyCount |-> 0, reactionCount |-> 0],
                                           "replyCount")
                          ELSE edgeMap
                  ELSE edgeMap
       IN InteractionLoop(
            ReactionInteractions(ReplyInteraction(msgs[i]), msgs[i],
                                 RecentEntries(msgs[i].reactions)),
            msgs, i + 1)

\* .sort((a, b) => b.replyCount + b.reactionCount - (a.replyCount + a.reactionCount))
ComputeInteractionMapOf(msgs) ==
  LET es == InteractionLoop(<<>>, msgs, 1)
  IN SortDescending(es, [i \in 1..Len(es) |-> es[i].replyCount + es[i].reactionCount])

\* who sent a message: with from_id, with actor_id only, with neither
GroupSenders ==
  {[from |-> <<"Ann">>, from_id |-> <<"userA">>, actor |-> <<>>, actor_id |-> <<>>],
   [from |-> <<"Bob">>, from_id |-> <<"userB">>, actor |-> <<>>, actor_id |-> <<>>],
   [from |-> <<>>, from_id |-> <<>>, actor |-> <<"Cy">>, actor_id |-> <<"userC">>],
   [from |-> <<>>, from_id |-> <<>>, actor |-> <<>>, actor_id |-> <<>>]}

InitInteraction ==
  /\ GraphStateIdle
  /\ ScoringIdle
  /\ WrappedIdle
  /\ FraudIdle
  /\ ForwardIdle
  /\ AppIdle
  /\ pc = "start"
  /\ LET \* the reactions of a message: none, or one with a count of 2 and Bob
         \* sampled
         InteractionReactions ==
           {<<>>,
            <<[emoji |-> "heart", count |-> 2,
               recent |-> <<[from |-> "Bob", from_id |-> "userB"]>>]>>}
         \* the messages that can stand at a place of the list, before their
         \* id is set
         InteractionMessages ==
           {[id |-> 0, type |-> "message", from |-> w.from, from_id |-> w.from_id,
             actor |-> w.actor, actor_id |-> w.actor_id, reply_to_message_id |-> r,
             reactions |-> x] :
              w \in GroupSenders, r \in {<<>>, <<1>>, <<2>>}, x \in InteractionReactions}
           \cup
           {[id |-> 0, type |-> "service", from |-> <<>>, from_id |-> <<>>,
             actor |-> <<"Ann">>, actor_id |-> <<"userA">>,
             reply_to_message_id |-> <<>>, reactions |-> <<>>]}
     IN \E list \in SeqsUpTo(InteractionMessages, MaxGroup) :
          messages = [i \in 1..Len(list) |-> [list[i] EXCEPT !.id = i]]
  /\ interactionMap = <<>>
  /\ memberStats = <<>>

ComputeInteractionMap ==
  /\ pc = "start"
  /\ interactionMap' = ComputeInteractionMapOf(messages)
  /\ pc' = "done"
  /\ UNCHANGED <<graphVars_noPc, scoringVars, wrappedVars, fraudVars, memberStats,
                 forwardVars, appVars>>

SpecInteraction == InitInteraction /\ [][ComputeInteractionMap]_vars

\* the sender identifier of a content-message
SenderIds == {InteractionFromId([w EXCEPT !.from = <<>>]) : w \in GroupSenders}

\* the replies in msgs from sender a to a content-message of sender b
RepliesFromTo(msgs, a, b) ==
  {i \in 1..Len(msgs) :
     /\ msgs[i].type = "message"
     /\ InteractionFromId(msgs[i]) = a
     /\ msgs[i].reply_to_message_id # <<>>
     /\ \E j \in 1..Len(msgs) :
          /\ msgs[j].id = msgs[i].reply_to_message_id[1]
          /\ msgs[j].type = "message"
          /\ InteractionFromId(msgs[j]) = b}

\* the edges of a result between a and b
EdgesBetween(es, a, b) ==
  {i \in 1..Len(es) : {es[i].fromId, es[i].toId} = {a, b}}

\* the counts of a result, edge by edge, without the order and the names
EdgeCounts(es) ==
  {[ends |-> {es[i].fromId, es[i].toId}, replyCount |-> es[i].replyCount,
    reactionCount |-> es[i].reactionCount] : i \in 1..Len(es)}

\* msgs with the messages at places i and j exchanged
Exchanged(msgs, i, j) ==
  [k \in 1..Len(msgs) |->
     IF k = i THEN msgs[j] ELSE IF k = j THEN msgs[i] ELSE msgs[k]]

\* C16: the result has at most one edge per unordered pair of sender
\* identifiers and no edge from a sender to itself; the replyCount of the
\* edge between A and B is the number of replies from A to B's messages plus
\* from B to A's; the counts do not depend on the order of the messages (any
\* reordering is a chain of exchanges of two messages).
C16_OneEdgePerPair ==
  pc = "done" =>
    /\ \A i \in 1..Len(interactionMap) :
         interactionMap[i].fromId # interactionMap[i].toId
    /\ \A a \in SenderIds : \A b \in SenderIds \ {a} :
         /\ Cardinality(EdgesBetween(interactionMap, a, b)) <= 1
         /\ \A i \in EdgesBetween(interactionMap, a, b) :
              interactionMap[i].replyCount =
                Cardinality(RepliesFromTo(messages, a, b))
                + Cardinality(RepliesFromTo(messages, b, a))
         /\ EdgesBetween(interactionMap, a, b) = {} =>
              RepliesFromTo(messages, a, b) \cup RepliesFromTo(messages, b, a) = {}
    /\ \A i \in 1..Len(messages), j \in 1..Len(messages) :
         EdgeCounts(ComputeInteractionMapOf(Exchanged(messages, i, j)))
           = EdgeCounts(interactionMap)

(***************************************************************************)
(* computeMemberStats (lib/group-analytics.ts)                             *)
(*                                                                         *)
(* A date is a day number, counted from 1970-01-01.  The text of a message *)
(* is given by its length.  The hour histogram is left out.                *)
(***************************************************************************)
MaxMembers == 3     \* longest message list of computeMemberStats

\* msg.from_id || msg.actor_id || fromName
MemberFromId(msg) ==
  OrElse(OrElse(msg.from_id, msg.actor_id), <<FromName(msg)>>)[1]

\* ensure(name, id), but first starts at the epoch as last does
EnsureFromEpoch(memberMap, name, id) ==
  IF \E i \in 1..Len(memberMap) : memberMap[i].id = id THEN memberMap
  ELSE Append(memberMap,
              [name |-> name, id |-> id, messages |-> 0, reactionsSent |-> 0,
               reactionsReceived |-> 0, media |-> 0, replies |-> 0,
               first |-> 0, last |-> 0, totalLength |-> 0, emojiMap |-> <<>>])

\* ensure(name, id)
Ensure(memberMap, name, id) ==
  LET \* new Date("2999-01-01") and new Date("1970-01-01") as day numbers
      FarFuture == 375835
      Epoch == 0
  IN IF \E i \in 1..Len(memberMap) : memberMap[i].id = id THEN memberMap
     ELSE Append(memberMap,
                 [name |-> name, id |-> id, messages |-> 0, reactionsSent |-> 0,
                  reactionsReceived |-> 0, media |-> 0, replies |-> 0,
                  first |-> FarFuture, last |-> Epoch, totalLength |-> 0,
                  emojiMap |-> <<>>])

\* the member that a sampled reactor entry is counted for, but the author
ReactorIdOfAuthor(msg, recent) == MemberFromId(msg)

\* the member that a sampled reactor entry is counted for
ReactorId(msg, recent) == recent.from_id

\* the recent entries of one reaction, entry by entry
RECURSIVE CountRecent(_, _, _, _)
CountRecent(memberMap, msg, emoji, recents) ==
  IF recents = <<>> THEN memberMap
  ELSE LET id == ReactorId(msg, Head(recents))
           \* em.set(emoji, (em.get(emoji) || 0) + 1)
           CountEmoji(em, e) ==
             IF \E i \in 1..Len(em) : em[i].emoji = e
             THEN [i \in 1..Len(em) |->
                     IF em[i].emoji = e THEN [em[i] EXCEPT !.count = @ + 1] ELSE em[i]]
             ELSE Append(em, [emoji |-> e, count |-> 1])
           ensured == Ensure(memberMap, Head(recents).from, id)
       IN CountRecent(
            [i \in 1..Len(ensured) |->
               IF ensured[i].id = id
               THEN [ensured[i] EXCEPT !.reactionsSent = @ + 1,
                                       !.emojiMap = CountEmoji(@, emoji)]
               ELSE ensured[i]],
            msg, emoji, Tail(recents))

\* the reactions of one message, reaction by reaction
RECURSIVE CountReactions(_, _, _)
CountReactions(memberMap, msg, reactions) ==
  IF reactions = <<>> THEN memberMap
  ELSE LET r == Head(reactions)
           received == [i \in 1..Len(memberMap) |->
                          IF memberMap[i].id = MemberFromId(msg)
                          THEN [memberMap[i] EXCEPT !.reactionsReceived = @ + r.count]
                          ELSE memberMap[i]]
       IN CountReactions(CountRecent(received, msg, r.emoji, r.recent),
                         msg, Tail(reactions))

\* the loop over the messages from index i
RECURSIVE MemberLoop(_, _, _)
MemberLoop(memberMap, msgs, i) ==
  IF i > Len(msgs) THEN memberMap
  ELSE IF msgs[i].type # "message" THEN MemberLoop(memberMap, msgs, i + 1)
  ELSE LET \* the counts of the author of one content-message
           CountMessage(msg) ==
             LET \* msg.photo || msg.file || msg.media_type
                 MemberHasMedia(m) == m.photo # <<>> \/ m.media_type # <<>>
                 ensured == Ensure(memberMap, FromName(msg), MemberFromId(msg))
             IN [k \in 1..Len(ensured) |->
                   IF ensured[k].id = MemberFromId(msg)
                   THEN [ensured[k] EXCEPT
                           !.messages = @ + 1,
                           !.first = Min2(@, msg.date),
                           !.last = Max2(@, msg.date),
                           !.totalLength = @ + msg.length,
                           !.media = @ + (IF MemberHasMedia(msg) THEN 1 ELSE 0),
                           !.replies = @ + (IF msg.reply_to_message_id # <<>>
                                               /\ msg.reply_to_message_id[1] # 0
                                            THEN 1 ELSE 0)]
                   ELSE ensured[k]]
       IN MemberLoop(CountReactions(CountMessage(msgs[i]), msgs[i], msgs[i].reactions),
                     msgs, i + 1)

ComputeMemberStatsOf(msgs) ==
  LET memberMap == MemberLoop(<<>>, msgs, 1)
      \* the MemberStat of an entry of memberMap
      MemberStatOf(m) ==
        [name |-> m.name, id |-> m.id, messageCount |-> m.messages,
         reactionsSent |-> m.reactionsSent, reactionsReceived |-> m.reactionsReceived,
         mediaCount |-> m.media, repliesCount |-> m.replies,
         firstMessage |-> m.first, lastMessage |-> m.last,
         avgMessageLength |-> IF m.messages > 0 THEN RoundDiv(m.totalLength, m.messages)
                              ELSE 0,
         \* .sort((a, b) => b.count - a.count).slice(0, 5)
         topEmojisUsed |->
           Slice(SortDescending(m.emojiMap,
                                [i \in 1..Len(m.emojiMap) |-> m.emojiMap[i].count]),
                 5)]
  IN \* .sort((a, b) => b.messageCount - a.messageCount)
     SortDescending([i \in 1..Len(memberMap) |-> MemberStatOf(memberMap[i])],
                    [i \in 1..Len(memberMap) |-> memberMap[i].messages])

InitMembers ==
  /\ GraphStateIdle
  /\ ScoringIdle
  /\ WrappedIdle
  /\ FraudIdle
  /\ ForwardIdle
  /\ AppIdle
  /\ pc = "start"
  /\ LET \* the reactions of a message: none; one with a count of 2 and Bob
         \* sampled; one with a count of 3 and Ann and Bob sampled, then one
         \* nobody is sampled of
         MemberReactions ==
           {<<>>,
            <<[emoji |-> "heart", count |-> 2,
               recent |-> <<[from |-> "Bob", from_id |-> "userB"]>>]>>,
            <<[emoji |-> "heart", count |-> 3,
               recent |-> <<[from |-> "Ann", from_id |-> "userA"],
                            [from |-> "Bob", from_id |-> "userB"]>>],
              [emoji |-> "fire", count |-> 1, recent |-> <<>>]>>}
         \* the messages that can stand at a place of the list, before id and
         \* date are set: a plain text with or without reactions, or a photo
         \* in reply to message 1
         MemberMessages ==
           {[id |-> 0, date |-> 0, type |-> "message", from |-> w.from,
             from_id |-> w.from_id, actor |-> w.actor, actor_id |-> w.actor_id,
             reply_to_message_id |-> <<>>, reactions |-> x, photo |-> <<>>, media_type |-> <<>>, length |-> 12] :
              w \in GroupSenders, x \in MemberReactions}
           \cup
           {[id |-> 0, date |-> 0, type |-> "message", from |-> w.from,
             from_id |-> w.from_id, actor |-> w.actor, actor_id |-> w.actor_id,
             reply_to_message_id |-> <<1>>, reactions |-> <<>>, photo |-> <<"photo.jpg">>, media_type |-> <<>>, length |-> 5] :
              w \in GroupSenders}
           \cup
           {[id |-> 0, date |-> 0, type |-> "service", from |-> <<>>,
             from_id |-> <<>>, actor |-> <<"Ann">>, actor_id |-> <<"userA">>,
             reply_to_message_id |-> <<>>, reactions |-> <<>>, photo |-> <<>>, media_type |-> <<>>, length |-> 0]}
     IN \* the ids are the places in the list, with one message a day
        \E list \in SeqsUpTo(MemberMessages, MaxMembers) :
          messages = [i \in 1..Len(list) |->
                        [list[i] EXCEPT !.id = i, !.date = 19000 + i]]
  /\ interactionMap = <<>>
  /\ memberStats = <<>>

ComputeMemberStats ==
  /\ pc = "start"
  /\ memberStats' = ComputeMemberStatsOf(messages)
  /\ pc' = "done"
  /\ UNCHANGED <<graphVars_noPc, scoringVars, wrappedVars, fraudVars,
                 interactionMap, forwardVars, appVars>>

SpecMembers == InitMembers /\ [][ComputeMemberStats]_vars

\* the sampled reactor entries of the content-messages, each with its place:
\* message, reaction, entry
SampledEntries ==
  {<<i, j, k>> \in (1..Len(messages)) \X (1..2) \X (1..2) :
     /\ messages[i].type = "message"
     /\ j <= Len(messages[i].reactions)
     /\ k <= Len(messages[i].reactions[j].recent)}

\* the reactions of the content-messages, each with its place
ReactionPlaces ==
  {<<i, j>> \in (1..Len(messages)) \X (1..2) :
     messages[i].type = "message" /\ j <= Len(messages[i].reactions)}

\* the sum of the values of a function with a finite domain
RECURSIVE SumOver(_)
SumOver(f) ==
  IF DOMAIN f = {} THEN 0
  ELSE LET x == CHOOSE y \in DOMAIN f : TRUE
       IN f[x] + SumOver([y \in DOMAIN f \ {x} |-> f[y]])

\* the count of an emoji in the histogram of a member
EmojiCount(m, emoji) ==
  LET hits == {i \in 1..Len(m.topEmojisUsed) : m.topEmojisUsed[i].emoji = emoji}
  IN IF hits = {} THEN 0 ELSE m.topEmojisUsed[CHOOSE i \in hits : TRUE].count

\* C17: every sampled reactor entry adds 1 to reactionsSent and to the emoji
\* histogram of the member keyed by the reactor's id, and to no other
\* member; the full count of a reaction is added to reactionsReceived of the
\* author of the message; so the sum of reactionsSent is the number of
\* sampled entries and the sum of reactionsReceived is the sum of the
\* reaction counts on content-messages.
C17_ReactionsSentAndReceived ==
  pc = "done" =>
    LET Count(p) == messages[p[1]].reactions[p[2]].count
        Sent(i) == memberStats[i].reactionsSent
        Received(i) == memberStats[i].reactionsReceived
    IN /\ \A i \in 1..Len(memberStats) :
            /\ memberStats[i].reactionsSent =
                 Cardinality({e \in SampledEntries :
                    messages[e[1]].reactions[e[2]].recent[e[3]].from_id
                      = memberStats[i].id})
            /\ \A emoji \in {"heart", "fire"} :
                 EmojiCount(memberStats[i], emoji) =
                   Cardinality({e \in SampledEntries :
                      /\ messages[e[1]].reactions[e[2]].recent[e[3]].from_id
                           = memberStats[i].id
                      /\ messages[e[1]].reactions[e[2]].emoji = emoji})
            /\ memberStats[i].reactionsReceived =
                 SumOver([p \in {q \in ReactionPlaces :
                                    MemberFromId(messages[q[1]]) = memberStats[i].id}
                            |-> Count(p)])
            /\ \A j \in 1..Len(memberStats) :
                 memberStats[j].id = memberStats[i].id => j = i
       /\ SumOver([i \in 1..Len(memberStats) |-> Sent(i)])
            = Cardinality(SampledEntries)
       /\ SumOver([i \in 1..Len(memberStats) |-> Received(i)])
            = SumOver([p \in ReactionPlaces |-> Count(p)])

\* Ann wrote a message that got a reaction of count 2 with Bob sampled, and
\* nothing else was sent or received
C17_Witness ==
  /\ pc = "done"
  /\ Cardinality(SampledEntries) = 1
  /\ \E i \in 1..Len(memberStats), j \in 1..Len(memberStats) :
       /\ memberStats[i].id = "userA"
       /\ memberStats[i].reactionsReceived = 2
       /\ memberStats[i].reactionsSent = 0
       /\ memberStats[j].id = "userB"
       /\ memberStats[j].reactionsSent = 1
       /\ memberStats[j].reactionsReceived = 0

(***************************************************************************)
(* buildForwardGraph (reply-graph library)                                 *)
(*                                                                         *)
(* A node is given by its id, reactionCount, isForwardedReply and chainId, *)
(* a source by its name, count, totalReactions and messages.  The ids of   *)
(* the messages of a list differ from one another.                         *)
(***************************************************************************)
MaxForward == 3     \* longest message list of buildForwardGraph

HubStep == 10000    \* hubId = -(chainId * 10000)

\* sourceMap after the grouping loop: one entry per source, in the order of
\* the first message of each, with the messages of the source in list order
RECURSIVE GroupBySource(_, _)
GroupBySource(sourceMap, forwarded) ==
  IF forwarded = <<>> THEN sourceMap
  ELSE LET msg == Head(forwarded)
           src == msg.forwarded_from[1]
           ensured == IF \E i \in 1..Len(sourceMap) : sourceMap[i].name = src
                      THEN sourceMap
                      ELSE Append(sourceMap, [name |-> src, msgs |-> <<>>])
       IN GroupBySource(
            [i \in 1..Len(ensured) |->
               IF ensured[i].name = src
               THEN [ensured[i] EXCEPT !.msgs = Append(@, msg)]
               ELSE ensured[i]],
            Tail(forwarded))

\* msgs.reduce((s, m) => s + (reactions total of m), 0)
RECURSIVE TotalReactions(_)
TotalReactions(msgs) ==
  IF msgs = <<>> THEN 0 ELSE ReactionTotal(Head(msgs)) + TotalReactions(Tail(msgs))

\* -(chainId * 10000)
HubId(cId) == 0 - (cId * HubStep)

\* the loop over sortedSources from index c: sources, nodes and edges
RECURSIVE SourceLoop(_, _, _)
SourceLoop(sortedSources, c, acc) ==
  IF c > Len(sortedSources) THEN acc
  ELSE LET msgs == sortedSources[c].msgs
           \* the hub node of the source
           hubNode == [id |-> HubId(c), reactionCount |-> TotalReactions(msgs),
                       isForwardedReply |-> TRUE, chainId |-> c]
           \* the node of a forwarded message
           MsgNode(msg) == [id |-> msg.id, reactionCount |-> ReactionTotal(msg),
                            isForwardedReply |-> FALSE, chainId |-> c]
       IN SourceLoop(sortedSources, c + 1,
            [sources |-> Append(acc.sources,
                                [name |-> sortedSources[c].name, count |-> Len(msgs),
                                 totalReactions |-> TotalReactions(msgs),
                                 messages |-> msgs]),
             nodes |-> acc.nodes \o <<hubNode>>
                       \o [i \in 1..Len(msgs) |-> MsgNode(msgs[i])],
             edges |-> acc.edges
                       \o [i \in 1..Len(msgs) |->
                             [source |-> HubId(c), target |-> msgs[i].id]]])

BuildForwardGraphOf(msgs) ==
  LET \* messages.filter(m => m.type === "message" && m.forwarded_from)
      forwarded ==
        FilterSeq(msgs, {m \in Range(msgs) :
                           /\ m.type = "message"
                           /\ m.forwarded_from # <<>> /\ m.forwarded_from[1] # ""})
      \* .sort((a, b) => b[1].length - a[1].length)
      sourceMap == GroupBySource(<<>>, forwarded)
      sortedSources ==
        SortDescending(sourceMap, [i \in 1..Len(sourceMap) |-> Len(sourceMap[i].msgs)])
      built == SourceLoop(sortedSources, 1,
                          [sources |-> <<>>, nodes |-> <<>>, edges |-> <<>>])
  IN [nodes |-> built.nodes,
      edges |-> built.edges,
      chains |-> [c \in 1..Len(sortedSources) |->
                    [id |-> c,
                     \* nodes.filter(n => n.chainId === cId)
                     nodes |-> FilterSeq(built.nodes,
                                         {n \in Range(built.nodes) : n.chainId = c}),
                     \* edges.filter(e => e.source === hubId)
                     edges |-> FilterSeq(built.edges,
                                         {e \in Range(built.edges) : e.source = HubId(c)}),
                     rootId |-> HubId(c), depth |-> 1]],
      sources |-> built.sources,
      totalForwarded |-> Len(forwarded),
      selfReplyCount |-> 0,
      crossChannelReplyCount |-> 0]

InitForward ==
  /\ GraphStateIdle
  /\ ScoringIdle
  /\ WrappedIdle
  /\ FraudIdle
  /\ GroupIdle
  /\ AppIdle
  /\ pc = "start"
  /\ LET \* the ids of the explored messages: integers, one of them negative
         ForwardIds == {0 - HubStep, 1, 2, 3}
         \* the messages that can stand at a place of the list, before their
         \* id is set
         ForwardMessages ==
           {[id |-> 0, type |-> "message", forwarded_from |-> <<>>, reactions |-> <<>>],
            [id |-> 0, type |-> "message", forwarded_from |-> <<"News">>,
             reactions |-> <<>>],
            [id |-> 0, type |-> "message", forwarded_from |-> <<"News">>,
             reactions |-> <<2, 1>>],
            [id |-> 0, type |-> "message", forwarded_from |-> <<"Blog">>,
             reactions |-> <<>>],
            [id |-> 0, type |-> "service", forwarded_from |-> <<"News">>,
             reactions |-> <<>>]}
     IN \* the ids of the messages of a list differ
        \E ids \in SeqsUpTo(ForwardIds, MaxForward),
           list \in SeqsUpTo(ForwardMessages, MaxForward) :
          /\ Len(ids) = Len(list)
          /\ \A i \in 1..Len(ids), j \in 1..Len(ids) : ids[i] = ids[j] => i = j
          /\ messages = [i \in 1..Len(list) |-> [list[i] EXCEPT !.id = ids[i]]]
  /\ forwardGraph = <<>>

BuildForwardGraph ==
  /\ pc = "start"
  /\ forwardGraph' = BuildForwardGraphOf(messages)
  /\ pc' = "done"
  /\ UNCHANGED <<graphVars_noPc, scoringVars, wrappedVars, fraudVars, groupVars,
                 appVars>>

SpecForward == InitForward /\ [][BuildForwardGraph]_vars

\* the places of the hub nodes in the node list
HubPlaces ==
  {i \in 1..Len(forwardGraph.nodes) : forwardGraph.nodes[i].isForwardedReply}

\* C19: the id of every hub node differs from the id of every message of
\* the input and from the id of every other hub, for any message list.
C19_HubIdsApart ==
  pc = "done" =>
    \A h \in HubPlaces :
      /\ \A i \in 1..Len(messages) : messages[i].id # forwardGraph.nodes[h].id
      /\ \A g \in HubPlaces \ {h} :
           forwardGraph.nodes[g].id # forwardGraph.nodes[h].id

(***************************************************************************)
(* The link-preview route (app/api/link-preview/route.ts)                  *)
(*                                                                         *)
(* The cache is the Map in insertion order, an entry being its key and     *)
(* expiresAt; the preview data of an entry follows from its key and from   *)
(* the content read upstream, which is left out.  Request handlers run     *)
(* one at a time up to their await: a handler waits for fetch and          *)
(* readBounded, which is one wait here as it touches nothing in between.   *)
(* The capacity of the cache, 500 in the source, is scaled down.           *)
(***************************************************************************)
CACHE_TTL_MS == 60 * 60 * 1000

CACHE_MAX_SIZE == 3   \* capacity of the cache, 500 in the source

\* new URL(url): the protocol and the hostname, valid FALSE when it throws
ParseUrl(url) ==
  LET U(protocol, hostname) ==
        [valid |-> TRUE, protocol |-> protocol, hostname |-> hostname]
  IN CASE url = "http://a.example/" -> U("http:", "a.example")
       [] url = "https://b.example/news" -> U("https:", "b.example")
       [] url = "http://93.184.216.34/" -> U("http:", "93.184.216.34")
       [] url = "http://c.example/" -> U("http:", "c.example")
       [] url = "http://localhost/admin" -> U("http:", "localhost")
       [] url = "http://10.0.0.5/" -> U("http:", "10.0.0.5")
       [] url = "http://printer.local/" -> U("http:", "printer.local")
       [] url = "ftp://a.example/file" -> U("ftp:", "a.example")
       [] OTHER -> [valid |-> FALSE, protocol |-> "", hostname |-> ""]

IsPrivateHost(hostname) ==
  LET \* what a hostname is to the tests: the suffix it ends with, the kind
      \* isIP gives to it without its brackets, and whether one of
      \* PRIVATE_IP_RANGES matches it
      H(suffix, ip, range) == [suffix |-> suffix, isIP |-> ip, inRange |-> range]
      host == CASE hostname = "printer.local" -> H(".local", 0, FALSE)
                [] hostname = "10.0.0.5" -> H("", 4, TRUE)
                [] hostname = "169.254.169.254" -> H("", 4, TRUE)
                [] hostname = "93.184.216.34" -> H("", 4, FALSE)
                [] OTHER -> H("", 0, FALSE)
  IN IF \/ hostname = "localhost"
        \/ hostname = "[::1]"
        \/ host.suffix = ".local"
        \/ host.suffix = ".internal"
     THEN TRUE
     ELSE IF host.isIP # 0 THEN host.inRange ELSE FALSE

\* getCached, but an entry never expires
GetCachedNoExpiry(c, key, t) ==
  LET at == {i \in 1..Len(c) : c[i].key = key}
  IN IF at = {} THEN [cache |-> c, data |-> <<>>]
     ELSE LET i == CHOOSE j \in at : TRUE
          IN [cache |-> SubSeq(c, 1, i - 1) \o SubSeq(c, i + 1, Len(c)) \o <<c[i]>>,
              data |-> <<key>>]

\* getCached(key) at the time t: the cache after it and the data returned,
\* <<>> for null
GetCached(c, key, t) ==
  LET at == {i \in 1..Len(c) : c[i].key = key}
  IN IF at = {} THEN [cache |-> c, data |-> <<>>]
     ELSE LET i == CHOOSE j \in at : TRUE
              deleted == SubSeq(c, 1, i - 1) \o SubSeq(c, i + 1, Len(c))
          IN IF t > c[i].expiresAt
             THEN [cache |-> deleted, data |-> <<>>]
             ELSE [cache |-> deleted \o <<c[i]>>, data |-> <<key>>]

\* setCached, but nothing is evicted
SetCachedNoEviction(c, key, t) ==
  LET entry == [key |-> key, expiresAt |-> t + CACHE_TTL_MS]
  IN IF \E i \in 1..Len(c) : c[i].key = key
     THEN [i \in 1..Len(c) |-> IF c[i].key = key THEN entry ELSE c[i]]
     ELSE Append(c, entry)

\* setCached(key, data) at the time t: Map.set keeps the place of a key that
\* the Map has
SetCached(c, key, t) ==
  LET kept == IF Len(c) >= CACHE_MAX_SIZE /\ c # <<>> /\ Head(c).key # ""
              THEN Tail(c) ELSE c
      entry == [key |-> key, expiresAt |-> t + CACHE_TTL_MS]
  IN IF \E i \in 1..Len(kept) : kept[i].key = key
     THEN [i \in 1..Len(kept) |-> IF kept[i].key = key THEN entry ELSE kept[i]]
     ELSE Append(kept, entry)

\* the keys of an order without key, then key: the order after a use of key
Touch(order, key) == SelectSeq(order, LAMBDA k : k # key) \o <<key>>

\* a handler that serves no request; a handler that waits for fetch keeps
\* its url and, as history, whether its read of the cache found an expired
\* entry
Idle == [pc |-> "idle", url |-> "", expired |-> FALSE]

\* the answer of a handler
Answer(status, xCache) == [status |-> status, xCache |-> xCache]

\* GET up to its await: the checks of the url, the read of the cache and the
\* call of fetch
Receive(h, url) ==
  LET parsed == ParseUrl(url)
      cached == GetCached(cache, url, now)
      Refuse(status) ==
        /\ response' = Answer(status, <<>>)
        /\ upstream' = {}
        /\ UNCHANGED <<cache, handler, lastUsed>>
  IN /\ handler[h].pc = "idle"
     /\ evicted' = <<>>
     /\ IF url = "" THEN Refuse(400)
        ELSE IF ~parsed.valid THEN Refuse(400)
        ELSE IF parsed.protocol \notin {"http:", "https:"} THEN Refuse(400)
        ELSE IF IsPrivateHost(parsed.hostname) THEN Refuse(403)
        ELSE /\ cache' = cached.cache
             /\ IF cached.data # <<>>
                THEN /\ response' = Answer(200, <<"HIT">>)
                     /\ upstream' = {}
                     /\ lastUsed' = Touch(lastUsed, url)
                     /\ UNCHANGED handler
                ELSE /\ response' = <<>>
                     /\ upstream' = {parsed.hostname}
                     /\ lastUsed' = SelectSeq(lastUsed, LAMBDA k : k # url)
                     /\ handler' = [handler EXCEPT ![h] =
                                    [pc |-> "fetch", url |-> url,
                                     expired |-> cached.cache # cache]]
     /\ UNCHANGED <<now, topics, activeTopic, threads, graphVars, scoringVars, wrappedVars,
                    fraudVars, groupVars, forwardVars>>

\* GET after its await: fetch has followed the redirects to the hosts of
\* redirects and the outcome is a page, another content type, a status that
\* is not ok, the abort after 6 seconds or another error
FetchDone(h, outcome, redirects) ==
  LET url == handler[h].url
      stored == SetCached(cache, url, now)
      \* the keys that the cache has lost
      gone == SelectSeq([i \in 1..Len(cache) |-> cache[i].key],
                        LAMBDA k : \A i \in 1..Len(stored) : stored[i].key # k)
  IN /\ handler[h].pc = "fetch"
     /\ upstream' = {redirects[i] : i \in 1..Len(redirects)}
     /\ handler' = [handler EXCEPT ![h] = Idle]
     /\ IF outcome \in {"html", "other"}
        THEN /\ cache' = stored
             /\ evicted' = [i \in 1..Len(gone) |->
                              [key |-> gone[i], leastRecent |-> Head(lastUsed)]]
             /\ lastUsed' =
                  Touch(SelectSeq(lastUsed,
                                  LAMBDA k : \E i \in 1..Len(stored) : stored[i].key = k),
                        url)
             /\ response' = Answer(200, <<"MISS">>)
        ELSE /\ response' = Answer(CASE outcome = "notOk" -> 502
                                     [] outcome = "abort" -> 504
                                     [] outcome = "error" -> 500,
                                   <<>>)
             /\ evicted' = <<>>
             /\ UNCHANGED <<cache, lastUsed>>
     /\ UNCHANGED <<now, topics, activeTopic, threads, graphVars, scoringVars, wrappedVars,
                    fraudVars, groupVars, forwardVars>>

\* the clock moves on to a later instant
Tick(t) ==
  /\ t > now
  /\ now' = t
  /\ response' = <<>>
  /\ upstream' = {}
  /\ evicted' = <<>>
  /\ UNCHANGED <<cache, handler, lastUsed, topics, activeTopic, threads, graphVars, scoringVars,
                 wrappedVars, fraudVars, groupVars, forwardVars>>

InitPreview ==
  /\ GraphIdle
  /\ ScoringIdle
  /\ WrappedIdle
  /\ FraudIdle
  /\ GroupIdle
  /\ ForwardIdle
  /\ pc = "start"
  /\ cache = <<>>
  /\ now = 0
  /\ handler = [h \in {"first", "second"} |-> Idle]
  /\ response = <<>>
  /\ upstream = {}
  /\ lastUsed = <<>>
  /\ evicted = <<>>
  /\ topics = {}
  /\ activeTopic = <<>>
  /\ threads = <<>>

SpecPreview ==
  /\ InitPreview
  /\ [][
      \/ \E h \in DOMAIN handler,
            url \in {"", "not a url", "ftp://a.example/file", "http://localhost/admin",
                     "http://10.0.0.5/", "http://printer.local/", "http://a.example/",
                     "https://b.example/news", "http://93.184.216.34/",
                     "http://c.example/"} :
           Receive(h, url)
      \/ \E h \in DOMAIN handler,
            upstreamAnswer \in {<<"html", <<>>>>, <<"html", <<"b.example">>>>,
                                <<"html", <<"169.254.169.254">>>>, <<"other", <<>>>>,
                                <<"notOk", <<>>>>, <<"abort", <<>>>>, <<"error", <<>>>>} :
           FetchDone(h, upstreamAnswer[1], upstreamAnswer[2])
      \/ \E t \in {CACHE_TTL_MS, CACHE_TTL_MS + 1} : Tick(t)
     ]_vars

\* C21: after any sequence of requests, with the clock moving on at any
\* point, the cache holds at most CACHE_MAX_SIZE entries.
C21_CacheBounded == Len(cache) <= CACHE_MAX_SIZE

\* a full cache has just evicted an entry to store another one
C21_Witness ==
  /\ Len(cache) = CACHE_MAX_SIZE
  /\ evicted # <<>>
  /\ response # <<>> /\ response.xCache = <<"MISS">>

\* C22: whenever setCached evicts an entry, the evicted key is the one
\* whose last use (a hit of getCached or a write of setCached) is the oldest
\* among the cached keys, for every interleaving of the handlers.
C22_EvictsLeastRecentlyUsed ==
  \A i \in 1..Len(evicted) : evicted[i].key = evicted[i].leastRecent

\* the handler that found an expired entry has had a usable answer from
\* upstream and sent X-Cache MISS
C23_Refetched(h) ==
  handler[h].pc = "fetch" /\ handler[h].expired /\ handler'[h].pc = "idle"
    => response'.xCache = <<"MISS">>

\* the handler that found an expired entry sent X-Cache MISS with the answer
\* of upstream, or 502, 504 or 500 without X-Cache when upstream failed
C23_RefetchedOrFailed(h) ==
  handler[h].pc = "fetch" /\ handler[h].expired /\ handler'[h].pc = "idle"
    => \/ response' = Answer(200, <<"MISS">>)
       \/ response' \in {Answer(status, <<>>) : status \in {502, 504, 500}}

\* a hit serves an entry that has not expired, and the read that finds an
\* expired entry deletes it and goes upstream
C23_ExpiryStep(h) ==
  /\ response' # <<>> /\ response'.xCache = <<"HIT">>
       => \E i \in 1..Len(cache) :
            /\ cache[i].key = cache'[Len(cache')].key
            /\ now <= cache[i].expiresAt
  /\ \A i \in 1..Len(cache) :
       /\ handler[h].pc = "idle" /\ handler' # handler
       /\ cache[i].key = handler'[h].url
       /\ now > cache[i].expiresAt
       => /\ handler'[h].pc = "fetch" /\ handler'[h].expired
          /\ upstream' # {}
          /\ \A j \in 1..Len(cache') : cache'[j].key # cache[i].key

\* C23 as stated: getCached returns data only while the time is at most the
\* expiresAt of the entry, the read that finds an expired entry deletes it,
\* and the request for that URL then goes upstream and answers with X-Cache
\* MISS.
C23_ExpiredThenMiss ==
  [][\A h \in DOMAIN handler : C23_ExpiryStep(h) /\ C23_Refetched(h)]_vars

\* C23 (amended): as above, but the request that goes upstream answers with
\* X-Cache MISS only when upstream gives a usable answer; otherwise it
\* answers 502, 504 or 500 without X-Cache. It never answers HIT.
C23_ExpiredThenMissOrFailure ==
  [][\A h \in DOMAIN handler : C23_ExpiryStep(h) /\ C23_RefetchedOrFailed(h)]_vars

\* the read of a handler has found an expired entry and deleted it, and the
\* handler has gone upstream
C23_Witness ==
  \E h \in DOMAIN handler :
    /\ handler[h].pc = "fetch" /\ handler[h].expired
    /\ now = CACHE_TTL_MS + 1
    /\ response = <<>> /\ upstream # {}
    /\ \A i \in 1..Len(cache) : cache[i].key # handler[h].url

\* C24: the handler never sends a request to a private or reserved host: a
\* URL whose host isPrivateHost accepts is answered 403 with the cache not
\* read and nothing fetched, and no request sent while a public URL is
\* served, the first one or one of a redirect, reaches a private host.
C24_NoRequestToPrivateHost ==
  [][/\ response' # <<>> /\ response'.status = 403
          => cache' = cache /\ upstream' = {}
     /\ \A hostname \in upstream' : ~IsPrivateHost(hostname)]_vars

(***************************************************************************)
(* buildThreads (components/user-profiles-view.tsx)                        *)
(*                                                                         *)
(* A message is its id, type, date and reply_to_message_id; a ThreadNode   *)
(* is the id of its message, its depth and its children.  The ids of the   *)
(* topics are ids of service messages or of messages outside the list, as  *)
(* in an export, where a topic is made by a service message.               *)
(***************************************************************************)
MaxThread == 3      \* longest message list of buildThreads

\* childrenMap.get(id) || []: the content-messages with a truthy
\* reply_to_message_id equal to id, in the order of the list
ChildrenOf(filtered, id) ==
  SelectSeq(filtered,
            LAMBDA m : /\ m.reply_to_message_id # <<>>
                       /\ m.reply_to_message_id[1] # 0
                       /\ m.reply_to_message_id[1] = id)

RECURSIVE BuildThreadNode(_, _, _)
BuildThreadNode(filtered, msg, depth) ==
  LET unsorted == ChildrenOf(filtered, msg.id)
      \* .sort((a, b) => new Date(a.date).getTime() - new Date(b.date).getTime())
      children == SortDescending(unsorted,
                                 [k \in 1..Len(unsorted) |-> 0 - unsorted[k].date])
  IN [message |-> msg.id, depth |-> depth,
      children |-> [k \in 1..Len(children) |->
                      BuildThreadNode(filtered, children[k], depth + 1)]]

\* getLatestDate: the date of the latest message of the thread of a node
RECURSIVE GetLatestDate(_, _)
GetLatestDate(filtered, node) ==
  LET own == (CHOOSE m \in Range(filtered) : m.id = node.message).date
      RECURSIVE LatestOf(_, _)
      LatestOf(latest, children) ==
        IF children = <<>> THEN latest
        ELSE LatestOf(Max2(latest, GetLatestDate(filtered, Head(children))),
                      Tail(children))
  IN LatestOf(own, node.children)

BuildThreadsOf(msgs, topicIds, active) ==
  LET filtered == SelectSeq(msgs, LAMBDA m : m.type = "message")
      IsRoot(msg) ==
        IF msg.reply_to_message_id = <<>> \/ msg.reply_to_message_id[1] = 0 THEN TRUE
        ELSE IF msg.reply_to_message_id[1] \in topicIds
             THEN IF active # <<>> THEN msg.reply_to_message_id = active ELSE TRUE
             ELSE ~\E k \in 1..Len(filtered) :
                     filtered[k].id = msg.reply_to_message_id[1]
      rootMessages == SelectSeq(filtered, IsRoot)
      \* the search from the roots of the topic: the ids it has added to
      \* topicMsgIds when the queue is read to its end
      RECURSIVE TopicMsgIds(_)
      TopicMsgIds(ids) ==
        LET next == {m.id : m \in UNION {Range(ChildrenOf(filtered, id)) : id \in ids}}
        IN IF next \subseteq ids THEN ids ELSE TopicMsgIds(ids \cup next)
      roots ==
        IF active = <<>> THEN rootMessages
        ELSE LET queue0 == SelectSeq(rootMessages,
                                     LAMBDA m : m.reply_to_message_id = active)
                 topicMsgIds == TopicMsgIds({m.id : m \in Range(queue0)})
             IN SelectSeq(rootMessages, LAMBDA m : m.id \in topicMsgIds)
      trees == [k \in 1..Len(roots) |-> BuildThreadNode(filtered, roots[k], 0)]
  IN \* trees.sort((a, b) => getLatestDate(b) - getLatestDate(a))
     SortDescending(trees, [k \in 1..Len(trees) |-> GetLatestDate(filtered, trees[k])])

InitThreads ==
  /\ GraphStateIdle
  /\ ScoringIdle
  /\ WrappedIdle
  /\ FraudIdle
  /\ GroupIdle
  /\ ForwardIdle
  /\ pc = "start"
  /\ LET \* the messages that can stand at a place of the list, before their
         \* id is set: a content-message of one of two days that replies to
         \* nothing, to a place of the list or to a message outside it, or a
         \* service message
         ThreadMessages ==
           [id : {0}, type : {"message"}, date : {10, 20},
            reply_to_message_id : {<<>>, <<1>>, <<2>>, <<3>>, <<9>>}]
           \cup
           [id : {0}, type : {"service"}, date : {10}, reply_to_message_id : {<<>>}]
     IN \E list \in SeqsUpTo(ThreadMessages, MaxThread) :
          /\ messages = [i \in 1..Len(list) |-> [list[i] EXCEPT !.id = i]]
          /\ topics \in SUBSET ({9} \cup {i \in 1..Len(list) : list[i].type = "service"})
  /\ activeTopic \in {<<>>} \cup {<<t>> : t \in topics}
  /\ threads = <<>>
  /\ cache = <<>>
  /\ now = 0
  /\ handler = <<>>
  /\ response = <<>>
  /\ upstream = {}
  /\ lastUsed = <<>>
  /\ evicted = <<>>

BuildThreads ==
  /\ pc = "start"
  /\ threads' = BuildThreadsOf(messages, topics, activeTopic)
  /\ pc' = "done"
  /\ UNCHANGED <<graphVars_noPc, scoringVars, wrappedVars, fraudVars, groupVars,
                 forwardVars, cache, now, handler, response, upstream, lastUsed,
                 evicted, topics, activeTopic>>

SpecThreads == InitThreads /\ [][BuildThreads]_vars

\* the ids of the messages of the nodes of a forest, node by node
RECURSIVE ForestIds(_)
ForestIds(forest) ==
  IF forest = <<>> THEN <<>>
  ELSE <<Head(forest).message>> \o ForestIds(Head(forest).children)
       \o ForestIds(Tail(forest))

\* the depth of every node under node is one more than that of its parent
RECURSIVE DepthsStepByOne(_)
DepthsStepByOne(node) ==
  \A k \in 1..Len(node.children) :
    /\ node.children[k].depth = node.depth + 1
    /\ DepthsStepByOne(node.children[k])

\* C29: with activeTopic = null, buildThreads places every content-message
\* of the input in exactly one node of the forest it returns, and the depth
\* of a node is one more than that of its parent; self-replies and messages
\* that reply to one another included.
C29_EveryMessageInOneNode ==
  pc = "done" /\ activeTopic = <<>> =>
    /\ \A i \in 1..Len(messages) :
         messages[i].type = "message" =>
           Cardinality({k \in 1..Len(ForestIds(threads)) :
                          ForestIds(threads)[k] = messages[i].id}) = 1
    /\ \A k \in 1..Len(threads) : DepthsStepByOne(threads[k])

(***************************************************************************)
(* buildReplyGraph, buildForwardGraph: the shape of the results            *)
(***************************************************************************)
\* the ids reached from the ids of seen along source -> target edges
RECURSIVE ReachedFrom(_, _)
ReachedFrom(es, seen) ==
  LET next == {e.target : e \in {x \in Range(es) : x.source \in seen}} \ seen
  IN IF next = {} THEN seen ELSE ReachedFrom(es, seen \cup next)

\* C25: in every chain returned by buildReplyGraph every node is reached
\* from the rootId of the chain along parent -> child edges, so that depth
\* is the largest nesting level over all nodes of the chain; reply
\* references that form a cycle included.
C25_ChainReachedFromRoot ==
  pc = "done" =>
    \A c \in 1..Len(chains) :
      ChainIds(chains[c]) \subseteq ReachedFrom(chains[c].edges, {chains[c].rootId})

\* a result of nodes ns, edges es and chains cs: the node ids are pairwise
\* distinct, the ends of every edge are node ids, the chainId of a node is
\* the id of the one chain that holds it, and the edges of a chain join
\* nodes of the chain
WellFormedGraph(ns, es, cs) ==
  LET ids == {ns[k].id : k \in 1..Len(ns)}
      Holding(id) == {c \in 1..Len(cs) : id \in ChainIds(cs[c])}
  IN /\ \A k, l \in 1..Len(ns) : ns[k].id = ns[l].id => k = l
     /\ \A e \in Range(es) : {e.source, e.target} \subseteq ids
     /\ \A k \in 1..Len(ns) :
          /\ Cardinality(Holding(ns[k].id)) = 1
          /\ \A c \in Holding(ns[k].id) : cs[c].id = ns[k].chainId
     /\ \A c \in 1..Len(cs) :
          \A e \in Range(cs[c].edges) : {e.source, e.target} \subseteq ChainIds(cs[c])

\* C30: in the results of buildReplyGraph and of buildForwardGraph the node
\* ids are pairwise distinct, source and target of every edge are ids of
\* nodes of the node list, the chainId of a node is the id of the one chain
\* that contains it, and the edges of a chain connect only nodes of that
\* chain.
C30_WellFormedResults ==
  pc = "done" =>
    /\ WellFormedGraph(nodes, edges, chains)
    /\ forwardGraph # <<>> =>
         WellFormedGraph(forwardGraph.nodes, forwardGraph.edges, forwardGraph.chains)

(***************************************************************************)
(* checkImpersonation: the authority-claim rule                            *)
(***************************************************************************)
\* C26: the authority-claim rule gives its 3 points and the reason
\* "Authority claim: <word>" for an authority word only when the text
\* contains that word together with "i am" or "i'm"; a text with none of
\* the five authority words gets no authority-claim points.
C26_AuthorityNeedsWord ==
  pc = "done" /\ fraudResult # <<>> =>
    \A word \in {"official", "administrator", "moderator", "support", "staff"} :
      <<"Authority claim", word>> \in Range(fraudResult[1].reasons)
        => /\ Includes(message.text, word)
           /\ Includes(message.text, "i am") \/ Includes(message.text, "i'm")

(***************************************************************************)
(* computeInteractionMap and computeMemberStats on one message list        *)
(***************************************************************************)
\* C27: for one message list, fromId and toId of every edge returned by
\* computeInteractionMap are ids of members returned by computeMemberStats:
\* both derive the identity key of a sender the same way, also for messages
\* without from_id.
C27_EdgeEndsAreMembers ==
  pc = "done" =>
    \A edge \in Range(ComputeInteractionMapOf(messages)) :
      {edge.fromId, edge.toId} \subseteq {memberStats[k].id : k \in 1..Len(memberStats)}

\* the places of the content-messages that the member with the id sent
SentBy(id) ==
  {i \in 1..Len(messages) :
     messages[i].type = "message" /\ MemberFromId(messages[i]) = id}

\* firstMessage and lastMessage are the earliest and the latest date of the
\* content-messages of the member
C28_DatesOfOwnMessages(m) ==
  /\ m.firstMessage <= m.lastMessage
  /\ \E i \in SentBy(m.id) : messages[i].date = m.firstMessage
  /\ \E i \in SentBy(m.id) : messages[i].date = m.lastMessage
  /\ \A i \in SentBy(m.id) :
       m.firstMessage <= messages[i].date /\ messages[i].date <= m.lastMessage

\* C28 as stated: every member returned by computeMemberStats has
\* messageCount >= 1 and firstMessage <= lastMessage, both being dates of
\* content-messages that the member sent.
C28_EveryMemberSent ==
  pc = "done" =>
    \A k \in 1..Len(memberStats) :
      memberStats[k].messageCount >= 1 /\ C28_DatesOfOwnMessages(memberStats[k])

\* C28 (amended): messageCount is the number of content-messages the member
\* sent; a member with messageCount >= 1 has firstMessage <= lastMessage,
\* the earliest and the latest date of these messages; a member with
\* messageCount 0 is one that only reacted, and has firstMessage 2999-01-01
\* and lastMessage 1970-01-01.
C28_SendersAndReactors ==
  pc = "done" =>
    \A k \in 1..Len(memberStats) :
      LET m == memberStats[k]
          FarFuture == 375835
      IN /\ m.messageCount = Cardinality(SentBy(m.id))
         /\ m.messageCount >= 1 => C28_DatesOfOwnMessages(m)
         /\ m.messageCount = 0 =>
              /\ m.reactionsSent >= 1
              /\ m.firstMessage = FarFuture
              /\ m.lastMessage = 0

\* a member with messages of two days next to a member that only reacted
C28_Witness ==
  /\ pc = "done"
  /\ \E k \in 1..Len(memberStats) :
       /\ memberStats[k].messageCount >= 2
       /\ memberStats[k].firstMessage < memberStats[k].lastMessage
  /\ \E k \in 1..Len(memberStats) : memberStats[k].messageCount = 0

====
